---- MODULE Spec2Model ----
(***************************************************************************)
(* A model of the caption pipeline of youtube-downloader:                  *)
(*   - SubtitleTranslator._translate_batch       (core/translation.py)     *)
(*   - SubtitleTranslator._create_translated_vtt (core/translation.py)     *)
(*   - translate_subtitle_files                   (core/translation.py)    *)
(*   - _clean_vtt_block / _process_vtt_file       (core/clean_subtitles.py)*)
(*   - clean_html_tags                            (core/clean_subtitles.py)*)
(*   - download_youtube_video                     (core/downloader.py)     *)
(*   - the download screen and the player         (gui/)                   *)
(*                                                                         *)
(* A Python string is a sequence of tokens (one token stands for one       *)
(* character or for one word that the code never looks into), so that      *)
(* strip, split, join, lower and the regular expressions are computed and  *)
(* not assumed.                                                            *)
(***************************************************************************)
EXTENDS Integers, Sequences, FiniteSets, TLC

VARIABLES
    \* ---- SubtitleTranslator._translate_batch ----
    texts,              \* the argument: the list of source texts
    batch_size,         \* the argument: N
    progress_callback,  \* TRUE when the caller passed a callback
    batch_idx,          \* the loop variable of line 205 (0-based)
    translated_texts,   \* the list built by the loop
    response,           \* the text of the response being parsed
    pc,                 \* the position in the function
    api_calls,          \* the batches sent to the service, in order
    sleeps,             \* how many times time.sleep returned
    outcomes,           \* what the service did per batch (history)
    \* ---- SubtitleTranslator._create_translated_vtt ----
    entries,            \* the argument: the parsed VTTEntry list
    wr_translated,      \* the argument: translated_texts
    vtt_content,        \* the lines written to the translated file
    wpc,                \* "ready" | "written"
    \* ---- translate_subtitle_files ----
    folder,             \* the names of the *.vtt files of video_folder
    ts_call,            \* the arguments and the folder of the last call
    ts_result,          \* the list it returned
    translator_calls,   \* the files handed to translate_vtt_file
    ts_path,            \* the return statement it left through
    TRANSLATION_ENABLED, \* settings.TRANSLATION_ENABLED (read from the environment)
    \* ---- clean_subtitles._process_vtt_file ----
    content,            \* the lines of the file
    remove_artifacts,   \* the toggle
    remove_html_tags,   \* the toggle
    block_results,      \* what _clean_vtt_block returned per block
    cpc,                \* "ready" | "cleaned"
    \* ---- the write of the translated file ----
    disk,               \* the destination file as a reader sees it
    old_disk,           \* the destination file before the call
    fpc,                \* "ready" | "open" | "closed" | "failed"
    \* ---- SubtitleTranslator.translate_vtt_file ----
    tv_callback,        \* TRUE when the caller passed a progress_callback
    tv_nbatches,        \* the number of batches of the texts of the file
    tv_pc,              \* the milestone translate_vtt_file has reached
    tv_batch,           \* the batches _translate_batch has gone through
    tv_outcomes,        \* what the service did per batch (history)
    tv_written,         \* TRUE when the translated file was written
    tv_result,          \* "none" | "path" | "None" | "raised"
    tv_raised_at,       \* the milestones at which the callback raised (history)
    \* ---- SubtitleTranslator._parse_vtt_file ----
    p_content,          \* the lines of the caption file that is parsed
    p_entries,          \* the entries _parse_vtt_file returned
    p_written,          \* the lines of the file written back from them
    p_reparsed,         \* the entries parsed from the written file
    ppc,                \* "ready" | "parsed" | "written" | "reparsed"
    b_lines,            \* the lines handed to _clean_vtt_block
    b_ra,               \* its argument remove_artifacts
    b_rh,               \* its argument remove_html_tags
    b_result,           \* what it returned
    bpc,                \* "idle", "ready" or "returned"
    t_text,             \* the text handed to clean_html_tags
    t_result,           \* what it returned
    t_again,            \* clean_html_tags of t_result
    tpc,                \* "idle", "ready", "cleaned" or "again"
    degraded,           \* the files written so far with untranslated cues, with the language of the run
    dl_callback,        \* download_youtube_video: a progress callback was given
    attempt,            \* the loop variable of line 163
    dl_options,         \* the options of every attempt made, in order
    dl_errors,          \* the kind of exception every failed attempt raised
    dl_sleeps,          \* the number of back-off sleeps
    dl_result,          \* "none", "info_failed", "success", "all_failed" or "raised"
    dl_pc,              \* "idle", "ready", "loop", "downloading", "returned" or "raised"
    download_disabled,  \* download_button.disabled
    preview_disabled,   \* preview_button.disabled
    play_visible,       \* play_button.visible
    status_text,        \* what status_text shows
    last_downloaded_video_path,\* the global _last_downloaded_video_path is set
    video_file,         \* a video file is in the folder of the video
    preview_threads,    \* the preview threads that are running
    previews_started,   \* the preview threads started so far
    downloads,          \* the download threads started so far, one record each
    views,              \* page.views, the player views with their temp_hidden_files
    en_present,         \* the English caption file is there under its name
    en_hidden,          \* the English caption file is there under its hidden name
    vi_present          \* a Vietnamese caption file is there

batchVars == <<texts, batch_size, progress_callback, batch_idx, translated_texts,
               response, pc, api_calls, sleeps, outcomes>>
writerVars == <<entries, wr_translated, vtt_content, wpc>>
folderVars == <<folder, ts_call, ts_result, translator_calls, ts_path, TRANSLATION_ENABLED>>
cleanVars == <<content, remove_artifacts, remove_html_tags, block_results, cpc>>
fileVars == <<disk, old_disk, fpc>>
pipeVars == <<tv_callback, tv_nbatches, tv_pc, tv_batch, tv_outcomes, tv_written, tv_result, tv_raised_at>>
parseVars == <<p_content, p_entries, p_written, p_reparsed, ppc>>
blockVars == <<b_lines, b_ra, b_rh, b_result, bpc>>
tagVars == <<t_text, t_result, t_again, tpc>>
runVars == <<degraded>>
dlVars == <<dl_callback, attempt, dl_options, dl_errors, dl_sleeps, dl_result, dl_pc>>
guiVars == <<download_disabled, preview_disabled, play_visible, status_text, last_downloaded_video_path, video_file, preview_threads, previews_started, downloads, views, en_present, en_hidden, vi_present>>
vars == <<batchVars, writerVars, folderVars, cleanVars, fileVars, pipeVars, parseVars, blockVars, tagVars, runVars, dlVars, guiVars>>

(***************************************************************************)
(* Bounds of the model.                                                    *)
(***************************************************************************)
MaxTexts == 3
MaxBatchSize == 3

(***************************************************************************)
(* Strings.                                                                *)
(***************************************************************************)
Max(a, b) == IF a >= b THEN a ELSE b

Min(a, b) == IF a <= b THEN a ELSE b

\* All sequences over S of length at most n.
SeqsUpTo(S, n) == UNION {[1..k -> S] : k \in 0..n}

\* The whitespace characters of str.strip() and of the regex class \s.
IsSpace(c) == c \in {" ", "WS"}

RECURSIVE LStrip(_)
LStrip(s) ==
    IF s = <<>> THEN <<>>
    ELSE IF IsSpace(Head(s)) THEN LStrip(Tail(s)) ELSE s

RECURSIVE RStrip(_)
RStrip(s) ==
    IF s = <<>> THEN <<>>
    ELSE IF IsSpace(s[Len(s)]) THEN RStrip(SubSeq(s, 1, Len(s) - 1)) ELSE s

\* str.strip()
Strip(s) == RStrip(LStrip(s))

\* The position of the first occurrence of token c in s, 0 when there is none.
RECURSIVE IndexOf(_, _)
IndexOf(s, c) ==
    IF s = <<>> THEN 0
    ELSE IF Head(s) = c THEN 1
    ELSE LET r == IndexOf(Tail(s), c) IN IF r = 0 THEN 0 ELSE r + 1

\* str.split('---SEPARATOR---'): the token "SEP" stands for the separator.
RECURSIVE SplitSep(_)
SplitSep(s) ==
    LET i == IndexOf(s, "SEP")
    IN IF i = 0 THEN <<s>>
       ELSE <<SubSeq(s, 1, i - 1)>> \o SplitSep(SubSeq(s, i + 1, Len(s)))

(***************************************************************************)
(* The translation service (an external collaborator).                     *)
(***************************************************************************)
SrcTexts == {<<"a">>, <<"b">>}

\* The translation the service is meant to give for a source text.
Tr(t) == [i \in DOMAIN t |-> IF t[i] = "a" THEN "A" ELSE IF t[i] = "b" THEN "B" ELSE t[i]]

\* The segments a response may be made of; some carry whitespace that the
\* code strips.
SegPool == {<<>>, <<"A">>, <<"WS", "B", "WS">>}

RECURSIVE JoinSep(_, _)
JoinSep(segs, pad) ==
    IF Len(segs) = 0 THEN <<>>
    ELSE IF Len(segs) = 1 THEN segs[1]
    ELSE segs[1] \o pad \o <<"SEP">> \o pad \o JoinSep(Tail(segs), pad)

\* A response with one correctly delimited translation per text of the batch.
GoodResponses(batch) ==
    {JoinSep([i \in DOMAIN batch |-> Tr(batch[i])], pad) : pad \in {<<>>, <<"WS">>}}

\* Every response text: k >= 1 segments joined by the separator.
Responses(batch) ==
    {JoinSep(segs, <<>>) :
        segs \in UNION {[1..k -> SegPool] : k \in 1..(Len(batch) + 1)}}
    \cup GoodResponses(batch)

\* The number of separator-delimited segments of a response text.
SegmentCount(r) == Cardinality({i \in DOMAIN r : r[i] = "SEP"}) + 1

\* What the service did with a batch, as the history records it.
OutcomeOf(r, batch) ==
    IF r \in GoodResponses(batch) THEN "good"
    ELSE IF SegmentCount(r) < Len(batch) THEN "few"
    ELSE IF SegmentCount(r) > Len(batch) THEN "many"
    ELSE "same"

(***************************************************************************)
(* SubtitleTranslator._translate_batch                                     *)
(***************************************************************************)
\* settings.TRANSLATION_RATE_LIMIT_DELAY (the default of the environment
\* variable), in seconds.
TRANSLATION_RATE_LIMIT_DELAY == 0

\* total_batches of line 203
TotalBatches(n, size) == (n + size - 1) \div size

\* The slice cut one position early: texts[batch_idx - 1:batch_idx + batch_size]
BatchWrongSlice(ts, idx, size) == SubSeq(ts, Max(idx, 1), Min(idx + size, Len(ts)))

\* Line 206: texts[batch_idx:batch_idx + batch_size] (a Python slice, 0-based, clipped)
BatchAt(ts, idx, size) == SubSeq(ts, idx + 1, Min(idx + size, Len(ts)))

Batch == BatchAt(texts, batch_idx, batch_size)

\* Lines 245-249: strip the text, split it on the separator, strip each part.
ParseSegments(r) ==
    LET parts == SplitSep(Strip(r))
    IN [i \in DOMAIN parts |-> Strip(parts[i])]

\* Lines 254-255 padding with batch[len(translated_batch) - 1].
RECURSIVE PadShifted(_, _)
PadShifted(tb, batch) ==
    IF Len(tb) < Len(batch)
    THEN PadShifted(Append(tb, batch[Max(Len(tb), 1)]), batch)
    ELSE tb

\* Lines 254-255: while len(translated_batch) < len(batch): append batch[len(...)]
RECURSIVE PadWithOriginal(_, _)
PadWithOriginal(tb, batch) ==
    IF Len(tb) < Len(batch)
    THEN PadWithOriginal(Append(tb, batch[Len(tb) + 1]), batch)
    ELSE tb

\* Lines 251-256 without the truncation of line 256.
ReconcileNoTruncate(tb, batch) ==
    IF Len(tb) # Len(batch) THEN PadWithOriginal(tb, batch) ELSE tb

\* Lines 251-256: pad, then translated_batch[:len(batch)]
Reconcile(tb, batch) ==
    IF Len(tb) # Len(batch)
    THEN SubSeq(PadWithOriginal(tb, batch), 1, Len(batch))
    ELSE tb

\* Line 263, times 200 to stay in the integers:
\* max(DELAY, DELAY * (1.0 - batch_size / 200))
Delay200(size) ==
    Max(200 * TRANSLATION_RATE_LIMIT_DELAY, TRANSLATION_RATE_LIMIT_DELAY * (200 - size))

\* time.sleep raises ValueError for a negative length.
SleepRaises(size) == Delay200(size) < 0

\* Lines 205-223 with the request of line 223 issued twice.
SendBatchTwice ==
    /\ pc = "loop"
    /\ batch_idx < Len(texts)
    /\ api_calls' = Append(Append(api_calls, Batch), Batch)
    /\ pc' = "call"
    /\ UNCHANGED <<texts, batch_size, progress_callback, batch_idx, translated_texts,
                   response, sleeps, outcomes>>
    /\ UNCHANGED <<writerVars, folderVars, cleanVars, fileVars, pipeVars, parseVars, blockVars, tagVars, runVars, dlVars, guiVars>>

\* Lines 205-223: the next batch is cut, the callback (if any) returns, and
\* the request is sent.
SendBatch ==
    /\ pc = "loop"
    /\ batch_idx < Len(texts)
    /\ api_calls' = Append(api_calls, Batch)
    /\ pc' = "call"
    /\ UNCHANGED <<texts, batch_size, progress_callback, batch_idx, translated_texts,
                   response, sleeps, outcomes>>
    /\ UNCHANGED <<writerVars, folderVars, cleanVars, fileVars, pipeVars, parseVars, blockVars, tagVars, runVars, dlVars, guiVars>>

\* Lines 209-210: the callback is called outside the try block, so what it
\* raises leaves _translate_batch.
CallbackRaises ==
    /\ pc = "loop"
    /\ batch_idx < Len(texts)
    /\ progress_callback
    /\ pc' = "raised"
    /\ UNCHANGED <<texts, batch_size, progress_callback, batch_idx, translated_texts,
                   response, api_calls, sleeps, outcomes>>
    /\ UNCHANGED <<writerVars, folderVars, cleanVars, fileVars, pipeVars, parseVars, blockVars, tagVars, runVars, dlVars, guiVars>>

\* Line 223 returns a response.
ServiceReturns ==
    /\ pc = "call"
    /\ \E r \in Responses(Batch) :
        /\ response' = r
        /\ outcomes' = Append(outcomes, OutcomeOf(r, Batch))
    /\ pc' = "parse"
    /\ UNCHANGED <<texts, batch_size, progress_callback, batch_idx, translated_texts,
                   api_calls, sleeps>>
    /\ UNCHANGED <<writerVars, folderVars, cleanVars, fileVars, pipeVars, parseVars, blockVars, tagVars, runVars, dlVars, guiVars>>

\* A failed batch whose exception leaves the function.
ServiceRaisesPropagates ==
    /\ pc = "call"
    /\ outcomes' = Append(outcomes, "err")
    /\ pc' = "raised"
    /\ UNCHANGED <<texts, batch_size, progress_callback, batch_idx, translated_texts,
                   response, api_calls, sleeps>>
    /\ UNCHANGED <<writerVars, folderVars, cleanVars, fileVars, pipeVars, parseVars, blockVars, tagVars, runVars, dlVars, guiVars>>

\* Line 223 (or the reading of the response, line 245) raises: lines 266-269
\* put the batch's own texts in the result, and the loop goes on.
ServiceRaises ==
    /\ pc = "call"
    /\ outcomes' = Append(outcomes, "err")
    /\ translated_texts' = translated_texts \o Batch
    /\ batch_idx' = batch_idx + batch_size
    /\ pc' = "loop"
    /\ UNCHANGED <<texts, batch_size, progress_callback, response, api_calls, sleeps>>
    /\ UNCHANGED <<writerVars, folderVars, cleanVars, fileVars, pipeVars, parseVars, blockVars, tagVars, runVars, dlVars, guiVars>>

\* Lines 245-264: parse, reconcile, extend, sleep. A sleep that raises is
\* caught by the except of line 266, after the batch was already added.
ParseResponse ==
    /\ pc = "parse"
    /\ LET translated_batch == Reconcile(ParseSegments(response), Batch)
           more == batch_idx + batch_size < Len(texts)
       IN IF more /\ SleepRaises(batch_size)
          THEN /\ translated_texts' = (translated_texts \o translated_batch) \o Batch
               /\ sleeps' = sleeps
          ELSE /\ translated_texts' = translated_texts \o translated_batch
               /\ sleeps' = IF more THEN sleeps + 1 ELSE sleeps
    /\ response' = <<>>
    /\ batch_idx' = batch_idx + batch_size
    /\ pc' = "loop"
    /\ UNCHANGED <<texts, batch_size, progress_callback, api_calls, outcomes>>
    /\ UNCHANGED <<writerVars, folderVars, cleanVars, fileVars, pipeVars, parseVars, blockVars, tagVars, runVars, dlVars, guiVars>>

\* Line 271: the loop is over.
ReturnTranslated ==
    /\ pc = "loop"
    /\ batch_idx >= Len(texts)
    /\ pc' = "returned"
    /\ UNCHANGED <<texts, batch_size, progress_callback, batch_idx, translated_texts,
                   response, api_calls, sleeps, outcomes>>
    /\ UNCHANGED <<writerVars, folderVars, cleanVars, fileVars, pipeVars, parseVars, blockVars, tagVars, runVars, dlVars, guiVars>>

NextBatch ==
    \/ SendBatch
    \/ CallbackRaises
    \/ ServiceReturns
    \/ ServiceRaises
    \/ ParseResponse
    \/ ReturnTranslated

(***************************************************************************)
(* SubtitleTranslator._create_translated_vtt                               *)
(***************************************************************************)
MaxEntries == 3
MaxTranslated == 3

\* The texts an entry may carry: empty, whitespace only, or words.
EntryTexts == {<<>>, <<" ">>, <<"a">>, <<"b">>}

\* The (start_time, end_time) pairs of the entries.
Timings == {<<"00:00:01.000", "00:00:03.000">>, <<"00:00:04.000", "00:00:06.000">>}

VTTEntries == [start_time : {t[1] : t \in Timings}, end_time : {t[2] : t \in Timings},
               text : EntryTexts]

\* The i-th translated text: i tokens, so that every position is told apart.
TranslatedText(i) == [j \in 1..i |-> "T"]

\* Line 304: f"{entry.start_time} --> {entry.end_time}"
TimingLineOf(e) == <<e.start_time, " ", "-->", " ", e.end_time>>

\* Lines 293-306 with a cursor that every entry advances.
RECURSIVE BuildEntriesByIndex(_, _, _)
BuildEntriesByIndex(es, tr, text_index) ==
    IF es = <<>> THEN <<>>
    ELSE LET e == Head(es)
             use == Strip(e.text) # <<>> /\ text_index < Len(tr)
             translated_text == IF use THEN tr[text_index + 1] ELSE e.text
         IN <<TimingLineOf(e), translated_text, <<>>>>
            \o BuildEntriesByIndex(Tail(es), tr, text_index + 1)

\* Lines 293-306: the loop over the entries, text_index being the cursor.
RECURSIVE BuildEntries(_, _, _)
BuildEntries(es, tr, text_index) ==
    IF es = <<>> THEN <<>>
    ELSE LET e == Head(es)
             use == Strip(e.text) # <<>> /\ text_index < Len(tr)
             translated_text == IF use THEN tr[text_index + 1] ELSE e.text
         IN <<TimingLineOf(e), translated_text, <<>>>>
            \o BuildEntries(Tail(es), tr, IF use THEN text_index + 1 ELSE text_index)

BuildContentByIndex(es, tr) == <<<<"WEBVTT">>, <<>>>> \o BuildEntriesByIndex(es, tr, 0)

\* Lines 291-306: vtt_content
BuildContent(es, tr) == <<<<"WEBVTT">>, <<>>>> \o BuildEntries(es, tr, 0)

\* Lines 290-312: the content is built and written to the translated file.
CreateTranslatedVtt ==
    /\ wpc = "ready"
    /\ vtt_content' = BuildContent(entries, wr_translated)
    /\ wpc' = "written"
    /\ UNCHANGED <<entries, wr_translated>>
    /\ UNCHANGED <<batchVars, folderVars, cleanVars, fileVars, pipeVars, parseVars, blockVars, tagVars, runVars, dlVars, guiVars>>

NextWriter == CreateTranslatedVtt

(***************************************************************************)
(* translate_subtitle_files                                                *)
(*                                                                         *)
(* A file "<stem>.vtt" is its stem, a sequence of tokens: <<"X", ".en">>   *)
(* is X.en.vtt. A token is a dot-led part of the name that the code only   *)
(* compares as a whole, except for the substring test of line 399.         *)
(***************************************************************************)
MaxFiles == 3

\* The caption files a folder may hold before the first call.
FilePool ==
    {<<"X", ".en">>, <<"X", ".en-US">>, <<"X", ".vi">>, <<"X", ".es">>, <<"X">>,
     <<"X", ".video", ".en">>}

\* The target_language arguments.
Languages == {"Vietnamese", "spanish", "Klingon"}

\* str.lower() of a language label
LowerLabel(lang) ==
    CASE lang = "Vietnamese" -> "vietnamese"
      [] lang = "Klingon" -> "klingon"
      [] lang = "English" -> "english"
      [] OTHER -> lang

\* Lines 314-325 with a table that knows the source language too.
LanguageTagWithEnglish(lang) ==
    LET l == LowerLabel(lang)
    IN CASE l = "vietnamese" -> ".vi"
         [] l = "spanish" -> ".es"
         [] l = "english" -> ".en"
         [] OTHER -> ".en"

\* Lines 314-325: _get_language_code, as the tag ".<code>" of a file name
LanguageTag(lang) ==
    LET l == LowerLabel(lang)
    IN CASE l = "vietnamese" -> ".vi"
         [] l = "spanish" -> ".es"
         [] l = "french" -> ".fr"
         [] l = "german" -> ".de"
         [] l = "chinese" -> ".zh"
         [] l = "japanese" -> ".ja"
         [] l = "korean" -> ".ko"
         [] OTHER -> ".trans"

\* Line 399: the codes whose presence in a stem marks a translated file
KnownCodes == {".vi", ".es", ".fr", ".de", ".zh", ".ja", ".ko", ".trans"}

\* `code in token` for a part of a file name: a code is in itself, and '.vi'
\* is in '.video'.
CodeInToken(tok) == tok \in KnownCodes \/ tok = ".video"

\* Line 399: `code in vtt_file.stem` is a substring test.
CodeInStem(stem) == \E i \in DOMAIN stem : CodeInToken(stem[i])

\* stem.endswith(tag)
EndsWith(stem, tag) == Len(stem) > 0 /\ stem[Len(stem)] = tag

\* Lines 283-288 and 367-371: the stem of the translated file of a caption file
TranslatedStem(stem, lang) ==
    (IF EndsWith(stem, ".en") THEN SubSeq(stem, 1, Len(stem) - 1) ELSE stem)
    \o <<LanguageTag(lang)>>

\* The orders in which glob may list the files of a folder.
RECURSIVE Perms(_)
Perms(S) ==
    IF S = {} THEN {<<>>}
    ELSE UNION {{<<x>> \o p : p \in Perms(S \ {x})} : x \in S}

\* Line 357: the files whose stem ends with '.vi'
NativeVietnamese(vtt_files) == SelectSeq(vtt_files, LAMBDA f : EndsWith(f, ".vi"))

\* Lines 366-381 left out: no existing translated file is looked for.
ExistingTranslatedNone(vtt_files, lang, dir) == <<>>

\* Lines 366-377: the expected translated file of each file, when it exists
RECURSIVE ExistingTranslated(_, _, _)
ExistingTranslated(vtt_files, lang, dir) ==
    IF vtt_files = <<>> THEN <<>>
    ELSE LET expected == TranslatedStem(Head(vtt_files), lang)
         IN (IF expected \in dir THEN <<expected>> ELSE <<>>)
            \o ExistingTranslated(Tail(vtt_files), lang, dir)

\* Lines 397-411 without the skip of line 399.
ToTranslateAll(vtt_files) == vtt_files

\* Lines 397-411: the files handed to translate_vtt_file, in order
ToTranslate(vtt_files) == SelectSeq(vtt_files, LAMBDA f : ~CodeInStem(f))

\* Lines 404-411: the paths translate_vtt_file returned (it returns None for
\* the files of `failed`)
RECURSIVE TranslatedPaths(_, _, _)
TranslatedPaths(files, lang, failed) ==
    IF files = <<>> THEN <<>>
    ELSE (IF Head(files) \in failed THEN <<>> ELSE <<TranslatedStem(Head(files), lang)>>)
         \o TranslatedPaths(Tail(files), lang, failed)

Range(s) == {s[i] : i \in DOMAIN s}

\* Line 347: list(video_folder.glob("*.vtt")), in any order. The model calls
\* the function on folders of at most MaxFiles caption files.
GlobVtt(dir) == IF Cardinality(dir) <= MaxFiles THEN Perms(dir) ELSE {}

\* What every call of translate_subtitle_files records. A run that
\* translates writes its files whether or not the batches were answered
\* (lines 266-269 of _translate_batch fall back to the original texts):
\* `degraded` remembers the files written with such cues, with the language
\* of the run and the folder as the run left it.
Called(lang, key, result, calls, path) ==
    /\ ts_call' = [folder |-> folder, target_language |-> lang, api_key |-> key]
    /\ ts_result' = result
    /\ translator_calls' = calls
    /\ ts_path' = path
    /\ degraded' \in
          IF path = "translated"
          THEN {degraded \cup {[file |-> f, lang |-> lang, after |-> folder \cup Range(result)] : f \in fb} :
                   fb \in SUBSET Range(result)}
          ELSE {degraded}
    /\ UNCHANGED TRANSLATION_ENABLED
    /\ UNCHANGED <<batchVars, writerVars, cleanVars, fileVars, pipeVars, parseVars, blockVars, tagVars, dlVars, guiVars>>

\* Lines 347-351: no caption file.
ReturnNoVttFiles ==
    /\ folder = {}
    /\ \E lang \in Languages, key \in BOOLEAN :
        Called(lang, key, <<>>, <<>>, "no_vtt_files")
    /\ UNCHANGED folder

\* Lines 357-363: a file whose stem ends with '.vi' is returned.
ReturnNative ==
    \E lang \in Languages, key \in BOOLEAN, vtt_files \in GlobVtt(folder) :
        /\ NativeVietnamese(vtt_files) # <<>>
        /\ Called(lang, key, NativeVietnamese(vtt_files), <<>>, "native")
        /\ UNCHANGED folder

\* Lines 366-381: the expected translated files that exist are returned.
ReturnExisting ==
    \E lang \in Languages, key \in BOOLEAN, vtt_files \in GlobVtt(folder) :
        /\ vtt_files # <<>>
        /\ NativeVietnamese(vtt_files) = <<>>
        /\ ExistingTranslated(vtt_files, lang, folder) # <<>>
        /\ Called(lang, key, ExistingTranslated(vtt_files, lang, folder), <<>>, "existing")
        /\ UNCHANGED folder

\* Lines 384-388 left out: the files are translated without a key.
ReturnNoApiKeyTranslates ==
    \E lang \in Languages, vtt_files \in GlobVtt(folder) :
        /\ vtt_files # <<>>
        /\ NativeVietnamese(vtt_files) = <<>>
        /\ ExistingTranslated(vtt_files, lang, folder) = <<>>
        /\ LET paths == TranslatedPaths(ToTranslate(vtt_files), lang, {})
           IN /\ Called(lang, FALSE, paths, ToTranslate(vtt_files), "translated")
              /\ folder' = folder \cup Range(paths)

\* Lines 384-388: no API key.
ReturnNoApiKey ==
    \E lang \in Languages, vtt_files \in GlobVtt(folder) :
        /\ vtt_files # <<>>
        /\ NativeVietnamese(vtt_files) = <<>>
        /\ ExistingTranslated(vtt_files, lang, folder) = <<>>
        /\ Called(lang, FALSE, <<>>, <<>>, "no_api_key")
        /\ UNCHANGED folder

\* Lines 390-394: the client could not be made (library missing, or its
\* constructor raised).
ReturnNoClient ==
    \E lang \in Languages, vtt_files \in GlobVtt(folder) :
        /\ vtt_files # <<>>
        /\ NativeVietnamese(vtt_files) = <<>>
        /\ ExistingTranslated(vtt_files, lang, folder) = <<>>
        /\ Called(lang, TRUE, <<>>, <<>>, "no_client")
        /\ UNCHANGED folder

\* Lines 397-413: every file without a known code in its stem is handed to
\* translate_vtt_file, which writes the translated file and returns its
\* path, or returns None.
ReturnTranslatedFiles ==
    \E lang \in Languages, vtt_files \in GlobVtt(folder) :
        /\ vtt_files # <<>>
        /\ NativeVietnamese(vtt_files) = <<>>
        /\ ExistingTranslated(vtt_files, lang, folder) = <<>>
        /\ \E failed \in SUBSET Range(ToTranslate(vtt_files)) :
            LET paths == TranslatedPaths(ToTranslate(vtt_files), lang, failed)
            IN /\ Called(lang, TRUE, paths, ToTranslate(vtt_files), "translated")
               /\ folder' = folder \cup Range(paths)

NextFolder ==
    \/ ReturnNoVttFiles
    \/ ReturnNative
    \/ ReturnExisting
    \/ ReturnNoApiKey
    \/ ReturnNoClient
    \/ ReturnTranslatedFiles

(***************************************************************************)
(* clean_subtitles: clean_html_tags, _clean_vtt_block, _process_vtt_file   *)
(*                                                                         *)
(* A file is the sequence of its lines (the text split on '\n'), a line a  *)
(* sequence of tokens: "<" and ">" are the brackets, " " a blank, "-->"    *)
(* the time-range delimiter, "ts" the body HH:MM:SS.mmm of a timestamp     *)
(* tag, "1" a digit, and the other tokens are words.                       *)
(***************************************************************************)
MaxFileLines == 4

\* Line 60: the phrases (two of the six; the others are handled alike)
ArtifactPhrases == {<<"sau", " ", "day">>, <<"vietnamese", " ", "translation">>}

\* str.lower(), token by token
LowerToken(c) == IF c = "SAU" THEN "sau" ELSE IF c = "DAY" THEN "day" ELSE c

Lower(line) == [i \in DOMAIN line |-> LowerToken(line[i])]

\* `phrase in line`
Contains(line, phrase) ==
    \E i \in 0..(Len(line) - Len(phrase)) : SubSeq(line, i + 1, i + Len(phrase)) = phrase

\* '-->' in line
HasArrow(line) == \E i \in DOMAIN line : line[i] = "-->"

\* bool(line.strip())
NonBlank(line) == Strip(line) # <<>>

\* str.isdigit()
IsDigit(line) == line # <<>> /\ \A i \in DOMAIN line : line[i] = "1"

\* Line 60: any(phrase in line.lower() for phrase in [...])
HasArtifact(line) == \E phrase \in ArtifactPhrases : Contains(Lower(line), phrase)

\* Line 22: re.sub(r'<\d{2}:\d{2}:\d{2}\.\d{3}>', '', text)
RECURSIVE RemoveTimestampTags(_)
RemoveTimestampTags(s) ==
    IF s = <<>> THEN <<>>
    ELSE IF Len(s) >= 3 /\ s[1] = "<" /\ s[2] = "ts" /\ s[3] = ">"
    THEN RemoveTimestampTags(SubSeq(s, 4, Len(s)))
    ELSE <<Head(s)>> \o RemoveTimestampTags(Tail(s))

\* Line 25: re.sub(r'<[^>]*>', '', text): from a "<" to the first ">" after it
RECURSIVE RemoveTags(_)
RemoveTags(s) ==
    IF s = <<>> THEN <<>>
    ELSE IF Head(s) = "<" /\ IndexOf(Tail(s), ">") > 0
    THEN RemoveTags(SubSeq(s, IndexOf(Tail(s), ">") + 2, Len(s)))
    ELSE <<Head(s)>> \o RemoveTags(Tail(s))

\* Line 28: re.sub(r'\s+', ' ', text)
RECURSIVE CollapseSpaces(_)
CollapseSpaces(s) ==
    IF s = <<>> THEN <<>>
    ELSE IF IsSpace(Head(s))
    THEN <<" ">> \o CollapseSpaces(LStrip(s))
    ELSE <<Head(s)>> \o CollapseSpaces(Tail(s))

\* Lines 11-31 without the whitespace clean-up of line 28.
clean_html_tags_no_collapse(text) == Strip(RemoveTags(RemoveTimestampTags(text)))

\* Lines 11-31
clean_html_tags(text) == Strip(CollapseSpaces(RemoveTags(RemoveTimestampTags(text))))

\* Lines 53-82 with the artifact test made on the line after its tags are
\* removed when tag removal is on.
CleanedLineCoupled(line, ra, rh) ==
    IF HasArrow(line) THEN <<line>>
    ELSE IF NonBlank(line) /\ ~IsDigit(line)
    THEN IF ra /\ HasArtifact(IF rh THEN clean_html_tags(line) ELSE line) THEN <<>>
         ELSE IF rh
         THEN (IF NonBlank(clean_html_tags(line)) THEN <<clean_html_tags(line)>> ELSE <<>>)
         ELSE <<line>>
    ELSE <<line>>

\* Lines 53-82: what the loop appends to cleaned_lines for one line
CleanedLine(line, ra, rh) ==
    IF HasArrow(line) THEN <<line>>
    ELSE IF NonBlank(line) /\ ~IsDigit(line)
    THEN IF ra /\ HasArtifact(line) THEN <<>>
         ELSE IF rh
         THEN (IF NonBlank(clean_html_tags(line)) THEN <<clean_html_tags(line)>> ELSE <<>>)
         ELSE <<line>>
    ELSE <<line>>

RECURSIVE CleanedLines(_, _, _)
CleanedLines(lines, ra, rh) ==
    IF lines = <<>> THEN <<>>
    ELSE CleanedLine(Head(lines), ra, rh) \o CleanedLines(Tail(lines), ra, rh)

\* Lines 35-91 with a block dropped when no text line of it is left.
clean_vtt_block_text_only(lines, ra, rh) ==
    IF lines = <<>> \/ ~(\E i \in DOMAIN lines : NonBlank(lines[i]))
    THEN [keep |-> FALSE, lines |-> <<>>]
    ELSE LET final_lines == SelectSeq(CleanedLines(lines, ra, rh), NonBlank)
         IN IF \E i \in DOMAIN final_lines : ~HasArrow(final_lines[i])
            THEN [keep |-> TRUE, lines |-> final_lines]
            ELSE [keep |-> FALSE, lines |-> <<>>]

\* Lines 35-91: (should_keep, cleaned_lines)
clean_vtt_block(lines, ra, rh) ==
    IF lines = <<>> \/ ~(\E i \in DOMAIN lines : NonBlank(lines[i]))
    THEN [keep |-> FALSE, lines |-> <<>>]
    ELSE LET final_lines == SelectSeq(CleanedLines(lines, ra, rh), NonBlank)
         IN [keep |-> final_lines # <<>>, lines |-> final_lines]

\* str.strip() of a text of several lines
RECURSIVE LStripLines(_)
LStripLines(ls) ==
    IF ls = <<>> THEN <<>>
    ELSE IF ~NonBlank(Head(ls)) THEN LStripLines(Tail(ls))
    ELSE <<LStrip(Head(ls))>> \o Tail(ls)

RECURSIVE RStripLines(_)
RStripLines(ls) ==
    IF ls = <<>> THEN <<>>
    ELSE IF ~NonBlank(ls[Len(ls)]) THEN RStripLines(SubSeq(ls, 1, Len(ls) - 1))
    ELSE SubSeq(ls, 1, Len(ls) - 1) \o <<RStrip(ls[Len(ls)])>>

\* text.strip().split('\n'): the empty text gives one empty line
StripSplitLines(ls) ==
    LET s == RStripLines(LStripLines(ls)) IN IF s = <<>> THEN <<<<>>>> ELSE s

\* Line 110: re.split(r'\n\n+', text): the blocks are the runs of lines
\* between empty lines
RECURSIVE SplitBlocksFrom(_, _)
SplitBlocksFrom(ls, cur) ==
    IF ls = <<>> THEN <<cur>>
    ELSE IF Head(ls) = <<>>
    THEN (IF cur = <<>> THEN <<>> ELSE <<cur>>) \o SplitBlocksFrom(Tail(ls), <<>>)
    ELSE SplitBlocksFrom(Tail(ls), Append(cur, Head(ls)))

\* Lines 110 and 115: the line lists handed to _clean_vtt_block
BlocksOf(file) ==
    LET stripped == RStripLines(LStripLines(file))
        blocks == IF stripped = <<>> THEN <<<<>>>> ELSE SplitBlocksFrom(stripped, <<>>)
    IN [i \in DOMAIN blocks |-> StripSplitLines(blocks[i])]

\* Lines 112-125: the lines of cleaned_content.split('\n')
RECURSIVE JoinBlocks(_)
JoinBlocks(kept) ==
    IF kept = <<>> THEN <<<<>>>>
    ELSE IF Len(kept) = 1 THEN kept[1] \o <<<<>>>>
    ELSE kept[1] \o <<<<>>>> \o JoinBlocks(Tail(kept))

RECURSIVE SkipBlank(_)
SkipBlank(ls) ==
    IF ls = <<>> THEN <<>>
    ELSE IF ~NonBlank(Head(ls)) THEN SkipBlank(Tail(ls)) ELSE ls

\* Lines 128-144: the empty lines after a timing line are removed
RECURSIVE FinalPass(_)
FinalPass(ls) ==
    IF ls = <<>> THEN <<>>
    ELSE IF HasArrow(Head(ls)) THEN <<Head(ls)>> \o FinalPass(SkipBlank(Tail(ls)))
    ELSE <<Head(ls)>> \o FinalPass(Tail(ls))

\* What _clean_vtt_block returned for every block of the file
BlockResults(file, ra, rh) ==
    [i \in DOMAIN BlocksOf(file) |->
        [block |-> BlocksOf(file)[i],
         result |-> clean_vtt_block(BlocksOf(file)[i], ra, rh)]]

\* Lines 105-150: the lines of the file after the call
process_vtt_file(file, ra, rh) ==
    LET results == BlockResults(file, ra, rh)
        kept == SelectSeq(results, LAMBDA r : r.result.keep)
    IN FinalPass(JoinBlocks([i \in DOMAIN kept |-> kept[i].result.lines]))

\* The lines a caption file is made of.
TimingLine == <<"00:00:01.000", " ", "-->", " ", "00:00:05.000">>

LinePool ==
    { <<"WEBVTT">>,
      TimingLine,
      <<"1">>,
      <<"x">>,
      <<"SAU", " ", "day">>,
      <<"sau", " ", "<", "c", ">", "day">>,
      <<"<", "c", ">", " ", "x">>,
      <<" ">>,
      <<>> }

\* _process_vtt_file(file_path, remove_artifacts, remove_html_tags): the file
\* is read, cleaned and written back.
ProcessVttFile ==
    /\ cpc = "ready"
    /\ \E ra \in BOOLEAN, rh \in BOOLEAN :
        /\ remove_artifacts' = ra
        /\ remove_html_tags' = rh
        /\ block_results' = BlockResults(content, ra, rh)
        /\ content' = process_vtt_file(content, ra, rh)
    /\ cpc' = "cleaned"
    /\ UNCHANGED <<batchVars, writerVars, folderVars, fileVars, pipeVars, parseVars, blockVars, tagVars, runVars, dlVars, guiVars>>

NextClean == ProcessVttFile


(***************************************************************************)
(* The write of the translated file, lines 308-312 of                      *)
(* _create_translated_vtt, step by step: what a reader of the destination  *)
(* path finds at each moment.                                              *)
(***************************************************************************)
\* The states of the destination path before the call: no file, or the file
\* of an earlier translation.
OldFiles ==
    {[exists |-> FALSE, lines |-> <<>>],
     [exists |-> TRUE, lines |-> <<<<"WEBVTT">>, <<>>, <<"old">>>>]}

\* Line 310: the text handed to f.write, as its lines
FileData == BuildContent(entries, wr_translated)

\* Line 309: open(translated_path, 'w') creates the file or truncates it.
OpenForWriting ==
    /\ fpc = "ready"
    /\ disk' = [exists |-> TRUE, lines |-> <<>>]
    /\ fpc' = "open"
    /\ UNCHANGED old_disk
    /\ UNCHANGED <<batchVars, writerVars, folderVars, cleanVars, pipeVars, parseVars, blockVars, tagVars, runVars, dlVars, guiVars>>

\* Line 309 raises (no permission, no such directory): nothing was touched.
OpenRaises ==
    /\ fpc = "ready"
    /\ fpc' = "failed"
    /\ UNCHANGED <<disk, old_disk>>
    /\ UNCHANGED <<batchVars, writerVars, folderVars, cleanVars, pipeVars, parseVars, blockVars, tagVars, runVars, dlVars, guiVars>>

\* Line 310: a part of the text has reached the file (the operating system
\* may take the bytes in several writes, and a reader runs alongside).
FlushPart ==
    /\ fpc = "open"
    /\ \E k \in (Len(disk.lines) + 1)..(Len(FileData) - 1) :
        disk' = [exists |-> TRUE, lines |-> SubSeq(FileData, 1, k)]
    /\ UNCHANGED <<old_disk, fpc>>
    /\ UNCHANGED <<batchVars, writerVars, folderVars, cleanVars, pipeVars, parseVars, blockVars, tagVars, runVars, dlVars, guiVars>>

\* Line 310 raises (disk full, I/O error, a character that cannot be
\* encoded): the with statement closes the file as it is.
WriteRaises ==
    /\ fpc = "open"
    /\ fpc' = "failed"
    /\ UNCHANGED <<disk, old_disk>>
    /\ UNCHANGED <<batchVars, writerVars, folderVars, cleanVars, pipeVars, parseVars, blockVars, tagVars, runVars, dlVars, guiVars>>

\* Lines 309-310: the with statement ends, the rest of the text is flushed.
CloseFile ==
    /\ fpc = "open"
    /\ disk' = [exists |-> TRUE, lines |-> FileData]
    /\ fpc' = "closed"
    /\ UNCHANGED old_disk
    /\ UNCHANGED <<batchVars, writerVars, folderVars, cleanVars, pipeVars, parseVars, blockVars, tagVars, runVars, dlVars, guiVars>>

NextWrite ==
    \/ OpenForWriting
    \/ OpenRaises
    \/ FlushPart
    \/ WriteRaises
    \/ CloseFile


(***************************************************************************)
(* SubtitleTranslator.translate_vtt_file, milestone by milestone. The      *)
(* client is there and the file exists (lines 85-91 passed).               *)
(***************************************************************************)
MaxBatches == 3

\* Lines 95-110: the callback returns (or there is none), the file is
\* parsed; no entry, or no entry with text, ends the call with None.
TvParse ==
    /\ tv_pc = "start"
    /\ \E parsed \in {"entries", "no_entries", "no_text"} :
        IF parsed = "entries"
        THEN tv_pc' = "parsed" /\ UNCHANGED tv_result
        ELSE tv_pc' = "returned" /\ tv_result' = "None"
    /\ UNCHANGED <<tv_callback, tv_nbatches, tv_batch, tv_outcomes, tv_written, tv_raised_at>>
    /\ UNCHANGED <<batchVars, writerVars, folderVars, cleanVars, fileVars, parseVars, blockVars, tagVars, runVars, dlVars, guiVars>>

\* Lines 113-116: the callback returns and _translate_batch is entered.
TvTranslate ==
    /\ tv_pc = "parsed"
    /\ tv_pc' = "batch"
    /\ UNCHANGED <<tv_callback, tv_nbatches, tv_batch, tv_outcomes, tv_written, tv_result,
                   tv_raised_at>>
    /\ UNCHANGED <<batchVars, writerVars, folderVars, cleanVars, fileVars, parseVars, blockVars, tagVars, runVars, dlVars, guiVars>>

\* Lines 205-269 of _translate_batch: the callback of the batch returns and
\* the batch is translated or falls back to its source texts.
TvBatch ==
    /\ tv_pc = "batch"
    /\ tv_batch < tv_nbatches
    /\ \E o \in {"ok", "err"} : tv_outcomes' = Append(tv_outcomes, o)
    /\ tv_batch' = tv_batch + 1
    /\ UNCHANGED <<tv_callback, tv_nbatches, tv_pc, tv_written, tv_result, tv_raised_at>>
    /\ UNCHANGED <<batchVars, writerVars, folderVars, cleanVars, fileVars, parseVars, blockVars, tagVars, runVars, dlVars, guiVars>>

\* Lines 118-128: the callback returns and _create_translated_vtt writes the
\* translated file.
TvRebuild ==
    /\ tv_pc = "batch"
    /\ tv_batch = tv_nbatches
    /\ tv_written' = TRUE
    /\ tv_pc' = "written"
    /\ UNCHANGED <<tv_callback, tv_nbatches, tv_batch, tv_outcomes, tv_result, tv_raised_at>>
    /\ UNCHANGED <<batchVars, writerVars, folderVars, cleanVars, fileVars, parseVars, blockVars, tagVars, runVars, dlVars, guiVars>>

\* Lines 130-134: the callback returns and the path is returned.
TvCompleted ==
    /\ tv_pc = "written"
    /\ tv_result' = "path"
    /\ tv_pc' = "returned"
    /\ UNCHANGED <<tv_callback, tv_nbatches, tv_batch, tv_outcomes, tv_written, tv_raised_at>>
    /\ UNCHANGED <<batchVars, writerVars, folderVars, cleanVars, fileVars, parseVars, blockVars, tagVars, runVars, dlVars, guiVars>>

\* The milestone whose callback is called next.
Milestone ==
    CASE tv_pc = "start" -> "parsing"
      [] tv_pc = "parsed" -> "translating"
      [] tv_pc = "batch" /\ tv_batch < tv_nbatches -> "batch"
      [] tv_pc = "batch" /\ tv_batch = tv_nbatches -> "rebuilding"
      [] tv_pc = "written" -> "completed"
      [] tv_pc = "except" -> "failed"
      [] OTHER -> "none"

\* Lines 96, 114, 210, 124, 131: the callback raises; every one of these
\* calls is inside the try of line 93 (line 210 through _translate_batch,
\* which does not catch it), so line 136 is reached.
TvCallbackRaises ==
    /\ tv_callback
    /\ tv_pc \in {"start", "parsed", "batch", "written"}
    /\ tv_raised_at' = Append(tv_raised_at, Milestone)
    /\ tv_pc' = "except"
    /\ UNCHANGED <<tv_callback, tv_nbatches, tv_batch, tv_outcomes, tv_written, tv_result>>
    /\ UNCHANGED <<batchVars, writerVars, folderVars, cleanVars, fileVars, parseVars, blockVars, tagVars, runVars, dlVars, guiVars>>

\* Lines 136-140: the error is logged, the callback (if any) returns, and
\* None is returned.
TvFailed ==
    /\ tv_pc = "except"
    /\ tv_result' = "None"
    /\ tv_pc' = "returned"
    /\ UNCHANGED <<tv_callback, tv_nbatches, tv_batch, tv_outcomes, tv_written, tv_raised_at>>
    /\ UNCHANGED <<batchVars, writerVars, folderVars, cleanVars, fileVars, parseVars, blockVars, tagVars, runVars, dlVars, guiVars>>

\* Line 139: the callback raises inside the except block; nothing catches it.
TvFailedCallbackRaises ==
    /\ tv_pc = "except"
    /\ tv_callback
    /\ tv_raised_at' = Append(tv_raised_at, Milestone)
    /\ tv_result' = "raised"
    /\ tv_pc' = "returned"
    /\ UNCHANGED <<tv_callback, tv_nbatches, tv_batch, tv_outcomes, tv_written>>
    /\ UNCHANGED <<batchVars, writerVars, folderVars, cleanVars, fileVars, parseVars, blockVars, tagVars, runVars, dlVars, guiVars>>

NextPipe ==
    \/ TvParse
    \/ TvTranslate
    \/ TvBatch
    \/ TvRebuild
    \/ TvCompleted
    \/ TvCallbackRaises
    \/ TvFailed
    \/ TvFailedCallbackRaises


(***************************************************************************)
(* SubtitleTranslator._parse_vtt_file, and the way back through            *)
(* _create_translated_vtt. The lines are token sequences as in the         *)
(* cleaner; a timestamp HH:MM:SS.mmm is one token.                         *)
(***************************************************************************)
\* The tokens that match \d{2}:\d{2}:\d{2}\.\d{3}
Timestamps == {"00:00:01.000", "00:00:03.000", "00:00:04.000", "00:00:06.000"}

\* Line 156: lines[0].startswith('WEBVTT')
StartsWithHeader(line) == line # <<>> /\ line[1] = "WEBVTT"

\* Line 171: re.match(r'(ts)\s+-->\s+(ts)', timing_line), anchored at the
\* start of the line only
TimingMatch(line) ==
    LET a == IF line = <<>> THEN <<>> ELSE Tail(line)
        b == LStrip(a)
        c == IF b = <<>> THEN <<>> ELSE Tail(b)
        d == LStrip(c)
    IN IF /\ line # <<>> /\ line[1] \in Timestamps
          /\ a # <<>> /\ IsSpace(a[1])
          /\ b # <<>> /\ b[1] = "-->"
          /\ c # <<>> /\ IsSpace(c[1])
          /\ d # <<>> /\ d[1] \in Timestamps
       THEN [ok |-> TRUE, start_time |-> line[1], end_time |-> d[1]]
       ELSE [ok |-> FALSE, start_time |-> "", end_time |-> ""]

\* Line 174: ' '.join(text_lines)
RECURSIVE JoinSpace(_)
JoinSpace(ls) ==
    IF ls = <<>> THEN <<>>
    ELSE IF Len(ls) = 1 THEN ls[1]
    ELSE ls[1] \o <<" ">> \o JoinSpace(Tail(ls))

\* Lines 163-167: the last line that holds '-->', and the stripped text lines
TimingLinesOf(lines) == SelectSeq(lines, HasArrow)

ParsedTextLines(lines) ==
    LET kept == SelectSeq(lines, LAMBDA l : ~HasArrow(l) /\ NonBlank(l) /\ ~IsDigit(l))
    IN [i \in DOMAIN kept |-> Strip(kept[i])]

\* Lines 153-183: the entries (none or one) that a block gives
ParseBlock(lines) ==
    IF lines = <<>> \/ StartsWithHeader(lines[1]) \/ ~(\E i \in DOMAIN lines : NonBlank(lines[i]))
    THEN <<>>
    ELSE LET arrows == TimingLinesOf(lines)
             text_lines == ParsedTextLines(lines)
         IN IF arrows # <<>> /\ text_lines # <<>> /\ TimingMatch(arrows[Len(arrows)]).ok
            THEN <<[start_time |-> TimingMatch(arrows[Len(arrows)]).start_time,
                    end_time |-> TimingMatch(arrows[Len(arrows)]).end_time,
                    text |-> JoinSpace(text_lines)]>>
            ELSE <<>>

RECURSIVE ParseBlocks(_)
ParseBlocks(blocks) ==
    IF blocks = <<>> THEN <<>> ELSE ParseBlock(Head(blocks)) \o ParseBlocks(Tail(blocks))

\* Lines 142-185: the entries of a file, given as its lines
parse_vtt_file(file) == ParseBlocks(BlocksOf(file))

\* The lines a parsed caption file is made of.
ParseLinePool ==
    { <<"WEBVTT">>,
      <<"00:00:01.000", " ", "-->", " ", "00:00:03.000">>,
      <<"00:00:04.000", " ", "-->", " ", "00:00:06.000", " ", "align">>,
      <<"a", " ", "-->", " ", "b">>,
      <<"1">>,
      <<" ", "1">>,
      <<"a">>,
      <<"b", " ">>,
      <<>> }

\* _parse_vtt_file(vtt_path)
ParseVttFile ==
    /\ ppc = "ready"
    /\ p_entries' = parse_vtt_file(p_content)
    /\ ppc' = "parsed"
    /\ UNCHANGED <<p_content, p_written, p_reparsed>>
    /\ UNCHANGED <<batchVars, writerVars, folderVars, cleanVars, fileVars, pipeVars, blockVars, tagVars, runVars, dlVars, guiVars>>

\* _create_translated_vtt(path, entries, [entry.text for entry in entries], lang)
WriteBack ==
    /\ ppc = "parsed"
    /\ p_written' = BuildContent(p_entries, [i \in DOMAIN p_entries |-> p_entries[i].text])
    /\ ppc' = "written"
    /\ UNCHANGED <<p_content, p_entries, p_reparsed>>
    /\ UNCHANGED <<batchVars, writerVars, folderVars, cleanVars, fileVars, pipeVars, blockVars, tagVars, runVars, dlVars, guiVars>>

\* _parse_vtt_file(translated_path)
ParseAgain ==
    /\ ppc = "written"
    /\ p_reparsed' = parse_vtt_file(p_written)
    /\ ppc' = "reparsed"
    /\ UNCHANGED <<p_content, p_entries, p_written>>
    /\ UNCHANGED <<batchVars, writerVars, folderVars, cleanVars, fileVars, pipeVars, blockVars, tagVars, runVars, dlVars, guiVars>>

NextParse ==
    \/ ParseVttFile
    \/ WriteBack
    \/ ParseAgain


(***************************************************************************)
(* The lines of the file that _create_translated_vtt writes                *)
(***************************************************************************)
\* Translated texts as the service may give them: lines 245-249 strip a
\* segment at its ends only, so a line break ("NL") inside it is kept.
SegmentTexts == {<<"T">>, <<"T", "NL", "T">>, <<"T", "NL", "NL", "T">>}

\* The lines of one element of vtt_content once it is in the file.
RECURSIVE SplitLines(_)
SplitLines(s) ==
    IF \A i \in DOMAIN s : s[i] # "NL" THEN <<s>>
    ELSE LET k == CHOOSE i \in DOMAIN s :
                      s[i] = "NL" /\ \A j \in 1..(i - 1) : s[j] # "NL"
         IN <<SubSeq(s, 1, k - 1)>> \o SplitLines(SubSeq(s, k + 1, Len(s)))

\* Line 310: '\n'.join(vtt_content), seen as the lines of the file.
RECURSIVE FileLines(_)
FileLines(c) == IF c = <<>> THEN <<>> ELSE SplitLines(Head(c)) \o FileLines(Tail(c))


(***************************************************************************)
(* _clean_vtt_block called on its own, as the tests call it: the lines are *)
(* any list of lines, blank ones and several timing lines included.        *)
(***************************************************************************)
MaxBlockLines == 3

\* A second timing line, to tell the timing lines of a block apart.
TimingLine2 == <<"00:00:06.000", " ", "-->", " ", "00:00:08.000">>

BlockLinePool ==
    { TimingLine,
      TimingLine2,
      <<"1">>,
      <<"x", " ", " ", "<", "c", ">", "y">>,
      <<"SAU", " ", "day">>,
      <<"sau", " ", "<", "c", ">", "day">>,
      <<"<", "sau", " ", "day", ">">>,
      <<" ", "x">>,
      <<" ">> }

\* Lines 35-91: one call of _clean_vtt_block
CleanVttBlock ==
    /\ bpc = "ready"
    /\ b_result' = clean_vtt_block(b_lines, b_ra, b_rh)
    /\ bpc' = "returned"
    /\ UNCHANGED <<b_lines, b_ra, b_rh>>
    /\ UNCHANGED <<batchVars, writerVars, folderVars, cleanVars, fileVars, pipeVars, parseVars, tagVars, runVars, dlVars, guiVars>>

NextBlock == CleanVttBlock


(***************************************************************************)
(* clean_html_tags called on its own, on any text, and once more on its    *)
(* result.                                                                 *)
(***************************************************************************)
MaxTextLen == 5

\* The characters of a text: the brackets, a blank, another whitespace
\* character, the body of a timestamp tag, a word.
TextTokens == {"<", ">", " ", "WS", "ts", "x"}

\* Lines 11-31: one call of clean_html_tags
CleanHtmlTags ==
    /\ tpc = "ready"
    /\ t_result' = clean_html_tags(t_text)
    /\ tpc' = "cleaned"
    /\ UNCHANGED <<t_text, t_again>>
    /\ UNCHANGED <<batchVars, writerVars, folderVars, cleanVars, fileVars, pipeVars, parseVars, blockVars, runVars, dlVars, guiVars>>

\* Lines 11-31: the result is cleaned once more
CleanHtmlTagsAgain ==
    /\ tpc = "cleaned"
    /\ t_again' = clean_html_tags(t_result)
    /\ tpc' = "again"
    /\ UNCHANGED <<t_text, t_result>>
    /\ UNCHANGED <<batchVars, writerVars, folderVars, cleanVars, fileVars, pipeVars, parseVars, blockVars, runVars, dlVars, guiVars>>

NextTags ==
    \/ CleanHtmlTags
    \/ CleanHtmlTagsAgain


(***************************************************************************)
(* download_youtube_video (core/downloader.py), attempt by attempt. The    *)
(* downloads themselves are yt-dlp's: an attempt succeeds or raises.       *)
(***************************************************************************)
max_retries == 3

\* config/settings.py, line 54
VIDEO_FORMAT == "best"

\* What the message of an exception can be: a rate limit (line 196), a
\* subtitle error (line 205), anything else (line 213).
ErrorKinds == {"429", "subtitle", "other"}

\* Lines 72-142: the options that differ between attempts
get_yt_dlp_options(retry_attempt) ==
    [format |-> IF retry_attempt > 1 THEN "best[height<=720]" ELSE VIDEO_FORMAT,
     writesubtitles |-> ~(retry_attempt > 0),
     writeautomaticsub |-> ~(retry_attempt > 0),
     user_agent |-> retry_attempt % 4]

\* Lines 148-152: the video information cannot be read; the function prints
\* and returns.
InfoFails ==
    /\ dl_pc = "ready"
    /\ dl_result' = "info_failed"
    /\ dl_pc' = "returned"
    /\ UNCHANGED <<dl_callback, attempt, dl_options, dl_errors, dl_sleeps>>
    /\ UNCHANGED <<batchVars, writerVars, folderVars, cleanVars, fileVars, pipeVars, parseVars, blockVars, tagVars, runVars, guiVars>>

\* Line 154: the folder cannot be made; the exception leaves the function.
FolderRaises ==
    /\ dl_pc = "ready"
    /\ dl_result' = "raised"
    /\ dl_pc' = "raised"
    /\ UNCHANGED <<dl_callback, attempt, dl_options, dl_errors, dl_sleeps>>
    /\ UNCHANGED <<batchVars, writerVars, folderVars, cleanVars, fileVars, pipeVars, parseVars, blockVars, tagVars, runVars, guiVars>>

\* Lines 149-163: the information is read, the folder exists, the loop starts.
FolderExists ==
    /\ dl_pc = "ready"
    /\ attempt' = 0
    /\ dl_pc' = "loop"
    /\ UNCHANGED <<dl_callback, dl_options, dl_errors, dl_sleeps, dl_result>>
    /\ UNCHANGED <<batchVars, writerVars, folderVars, cleanVars, fileVars, pipeVars, parseVars, blockVars, tagVars, runVars, guiVars>>

\* Lines 163-178: the back-off sleep of a retry, the options of the attempt,
\* and the download is started.
StartAttempt ==
    /\ dl_pc = "loop"
    /\ attempt < max_retries
    /\ dl_sleeps' = IF attempt > 0 THEN dl_sleeps + 1 ELSE dl_sleeps
    /\ dl_options' = Append(dl_options, get_yt_dlp_options(attempt))
    /\ dl_pc' = "downloading"
    /\ UNCHANGED <<dl_callback, attempt, dl_errors, dl_result>>
    /\ UNCHANGED <<batchVars, writerVars, folderVars, cleanVars, fileVars, pipeVars, parseVars, blockVars, tagVars, runVars, guiVars>>

\* Lines 178-190: the download went through; the function returns.
AttemptSucceeds ==
    /\ dl_pc = "downloading"
    /\ dl_result' = "success"
    /\ dl_pc' = "returned"
    /\ UNCHANGED <<dl_callback, attempt, dl_options, dl_errors, dl_sleeps>>
    /\ UNCHANGED <<batchVars, writerVars, folderVars, cleanVars, fileVars, pipeVars, parseVars, blockVars, tagVars, runVars, guiVars>>

\* Lines 192-231 with a retry for rate limits and subtitle errors only.
AttemptRaisesGivesUp ==
    /\ dl_pc = "downloading"
    /\ \E kind \in ErrorKinds :
        /\ dl_errors' = Append(dl_errors, kind)
        /\ IF attempt < max_retries - 1 /\ kind # "other"
           THEN /\ attempt' = attempt + 1
                /\ dl_pc' = "loop"
                /\ UNCHANGED dl_result
           ELSE /\ dl_result' = "all_failed"
                /\ dl_pc' = "returned"
                /\ UNCHANGED attempt
    /\ UNCHANGED <<dl_callback, dl_options, dl_sleeps>>
    /\ UNCHANGED <<batchVars, writerVars, folderVars, cleanVars, fileVars, pipeVars, parseVars, blockVars, tagVars, runVars, guiVars>>

\* Lines 192-231: the attempt raised. Each of the three branches continues
\* with the next attempt while one is left (lines 197-199, 206-208,
\* 214-217); after the last attempt the messages are printed and the loop,
\* and the function, end.
AttemptRaises ==
    /\ dl_pc = "downloading"
    /\ \E kind \in ErrorKinds :
        /\ dl_errors' = Append(dl_errors, kind)
        /\ IF attempt < max_retries - 1
           THEN /\ attempt' = attempt + 1
                /\ dl_pc' = "loop"
                /\ UNCHANGED dl_result
           ELSE /\ dl_result' = "all_failed"
                /\ dl_pc' = "returned"
                /\ UNCHANGED attempt
    /\ UNCHANGED <<dl_callback, dl_options, dl_sleeps>>
    /\ UNCHANGED <<batchVars, writerVars, folderVars, cleanVars, fileVars, pipeVars, parseVars, blockVars, tagVars, runVars, guiVars>>

NextDownload ==
    \/ InfoFails
    \/ FolderRaises
    \/ FolderExists
    \/ StartAttempt
    \/ AttemptSucceeds
    \/ AttemptRaises


(***************************************************************************)
(* The download screen (gui/event_handlers.py, gui/download_screen.py) and *)
(* the player (gui/video_player.py): the click handlers run on the event   *)
(* thread, the preview and download threads run beside them, one step of a *)
(* thread at a time. A click reaches its handler only when its button is   *)
(* enabled, visible and on the top view.                                   *)
(***************************************************************************)
MaxDownloads == 2
MaxPreviews == 2

RootView == [route |-> "/", temp_hidden_files |-> FALSE]

\* The view the user sees.
TopRoute == views[Len(views)].route

\* What download_youtube_video did, as the handler cannot see it: it
\* returns None in the first three cases (lines 148-152 and 192-231 of
\* core/downloader.py) and raises in the last.
Outcomes == {"success", "info_failed", "all_failed", "raised"}

\* Lines 77-85 and 159-179: the URL or the directory is not valid; the
\* handler shows the message and returns.
InvalidInput ==
    /\ TopRoute = "/"
    /\ ~preview_disabled \/ ~download_disabled
    /\ status_text # "invalid"
    /\ status_text' = "invalid"
    /\ UNCHANGED <<download_disabled, preview_disabled, play_visible, last_downloaded_video_path,
                   video_file, preview_threads, previews_started, downloads, views,
                   en_present, en_hidden, vi_present>>
    /\ UNCHANGED <<batchVars, writerVars, folderVars, cleanVars, fileVars, pipeVars, parseVars, blockVars, tagVars, runVars, dlVars>>

\* Lines 87-91 and 144: handle_preview_click disables the preview button
\* and starts a preview thread.
PreviewClick ==
    /\ TopRoute = "/"
    /\ ~preview_disabled
    /\ previews_started < MaxPreviews
    /\ preview_disabled' = TRUE
    /\ status_text' = "getting_info"
    /\ preview_threads' = preview_threads + 1
    /\ previews_started' = previews_started + 1
    /\ UNCHANGED <<download_disabled, play_visible, last_downloaded_video_path, video_file,
                   downloads, views, en_present, en_hidden, vi_present>>
    /\ UNCHANGED <<batchVars, writerVars, folderVars, cleanVars, fileVars, pipeVars, parseVars, blockVars, tagVars, runVars, dlVars>>

\* Lines 95-129 and 138-141: the preview thread has the video information,
\* enables the download button and, in its finally clause, the preview
\* button.
PreviewThreadLoaded ==
    /\ preview_threads > 0
    /\ download_disabled' = FALSE
    /\ preview_disabled' = FALSE
    /\ status_text' = "preview_loaded"
    /\ preview_threads' = preview_threads - 1
    /\ UNCHANGED <<play_visible, last_downloaded_video_path, video_file, previews_started,
                   downloads, views, en_present, en_hidden, vi_present>>
    /\ UNCHANGED <<batchVars, writerVars, folderVars, cleanVars, fileVars, pipeVars, parseVars, blockVars, tagVars, runVars, dlVars>>

\* Lines 131-141: the preview thread failed.
PreviewThreadFailed ==
    /\ preview_threads > 0
    /\ download_disabled' = TRUE
    /\ preview_disabled' = FALSE
    /\ status_text' = "preview_error"
    /\ preview_threads' = preview_threads - 1
    /\ UNCHANGED <<play_visible, last_downloaded_video_path, video_file, previews_started,
                   downloads, views, en_present, en_hidden, vi_present>>
    /\ UNCHANGED <<batchVars, writerVars, folderVars, cleanVars, fileVars, pipeVars, parseVars, blockVars, tagVars, runVars, dlVars>>

\* Lines 181-188 and 314-315: handle_download_click disables both buttons and
\* starts a download thread.
DownloadClick ==
    /\ TopRoute = "/"
    /\ ~download_disabled
    /\ Len(downloads) < MaxDownloads
    /\ download_disabled' = TRUE
    /\ preview_disabled' = TRUE
    /\ status_text' = "starting"
    /\ downloads' = Append(downloads, [pc |-> "started", outcome |-> "none",
                                      status |-> "none", play |-> FALSE])
    /\ UNCHANGED <<play_visible, last_downloaded_video_path, video_file, preview_threads,
                   previews_started, views, en_present, en_hidden, vi_present>>
    /\ UNCHANGED <<batchVars, writerVars, folderVars, cleanVars, fileVars, pipeVars, parseVars, blockVars, tagVars, runVars, dlVars>>

\* Lines 192-244: the download thread shows that it works and calls
\* download_youtube_video, which returns (whatever happened) or raises.
DownloadReturns ==
    \E i \in DOMAIN downloads, o \in Outcomes :
        /\ downloads[i].pc = "started"
        /\ downloads' = [downloads EXCEPT ![i].pc = "returned", ![i].outcome = o]
        /\ video_file' = (video_file \/ o = "success")
        /\ status_text' = "working"
        /\ UNCHANGED <<download_disabled, preview_disabled, play_visible,
                       last_downloaded_video_path, preview_threads, previews_started, views,
                       en_present, en_hidden, vi_present>>
    /\ UNCHANGED <<batchVars, writerVars, folderVars, cleanVars, fileVars, pipeVars, parseVars, blockVars, tagVars, runVars, dlVars>>

\* Lines 246-284: download_youtube_video returned. The video information is
\* read once more; with it the video file is looked for (lines 252-265) and
\* the status of lines 272-275 is shown, without it the status of line 278;
\* the play button is shown when the global path is set.
DownloadStatus ==
    \E i \in DOMAIN downloads, info \in BOOLEAN :
        /\ downloads[i].pc = "returned"
        /\ downloads[i].outcome # "raised"
        /\ last_downloaded_video_path' = IF info THEN video_file ELSE last_downloaded_video_path
        /\ status_text' = "completed"
        /\ play_visible' = (play_visible \/ last_downloaded_video_path')
        /\ downloads' = [downloads EXCEPT ![i].pc = "status", ![i].status = "completed",
                                          ![i].play = last_downloaded_video_path']
        /\ UNCHANGED <<download_disabled, preview_disabled, video_file, preview_threads,
                       previews_started, views, en_present, en_hidden, vi_present>>
    /\ UNCHANGED <<batchVars, writerVars, folderVars, cleanVars, fileVars, pipeVars, parseVars, blockVars, tagVars, runVars, dlVars>>

\* Lines 286-289: download_youtube_video raised; the classified error is
\* shown.
DownloadError ==
    \E i \in DOMAIN downloads :
        /\ downloads[i].pc = "returned"
        /\ downloads[i].outcome = "raised"
        /\ status_text' = "error"
        /\ downloads' = [downloads EXCEPT ![i].pc = "status", ![i].status = "error"]
        /\ UNCHANGED <<download_disabled, preview_disabled, play_visible,
                       last_downloaded_video_path, video_file, preview_threads,
                       previews_started, views, en_present, en_hidden, vi_present>>
    /\ UNCHANGED <<batchVars, writerVars, folderVars, cleanVars, fileVars, pipeVars, parseVars, blockVars, tagVars, runVars, dlVars>>

\* Lines 291-311: the finally clause enables both buttons; the thread ends.
DownloadFinally ==
    \E i \in DOMAIN downloads :
        /\ downloads[i].pc = "status"
        /\ download_disabled' = FALSE
        /\ preview_disabled' = FALSE
        /\ downloads' = [downloads EXCEPT ![i].pc = "done"]
        /\ UNCHANGED <<play_visible, status_text, last_downloaded_video_path, video_file,
                       preview_threads, previews_started, views, en_present, en_hidden,
                       vi_present>>
    /\ UNCHANGED <<batchVars, writerVars, folderVars, cleanVars, fileVars, pipeVars, parseVars, blockVars, tagVars, runVars, dlVars>>

\* handle_play_click (lines 321-349) and _create_video_player (lines
\* 151-216 of video_player.py): with a Vietnamese and an English caption
\* file the English one is renamed to its hidden name and remembered by the
\* screen; the player view is pushed.
PlayClick ==
    /\ TopRoute = "/"
    /\ play_visible
    /\ last_downloaded_video_path /\ video_file
    /\ LET hide == vi_present /\ en_present
       IN /\ en_present' = (en_present /\ ~hide)
          /\ en_hidden' = (en_hidden \/ hide)
          /\ views' = Append(views, [route |-> "/player", temp_hidden_files |-> hide])
    /\ UNCHANGED <<download_disabled, preview_disabled, play_visible, status_text,
                   last_downloaded_video_path, video_file, preview_threads, previews_started,
                   downloads, vi_present>>
    /\ UNCHANGED <<batchVars, writerVars, folderVars, cleanVars, fileVars, pipeVars, parseVars, blockVars, tagVars, runVars, dlVars>>

\* _on_back_click and _restore_hidden_files (lines 239-277 of
\* video_player.py): the hidden file is renamed back, the view is popped.
BackClick ==
    /\ TopRoute = "/player"
    /\ LET restore == views[Len(views)].temp_hidden_files /\ en_hidden
       IN /\ en_present' = (en_present \/ restore)
          /\ en_hidden' = (en_hidden /\ ~restore)
    /\ views' = SubSeq(views, 1, Len(views) - 1)
    /\ UNCHANGED <<download_disabled, preview_disabled, play_visible, status_text,
                   last_downloaded_video_path, video_file, preview_threads, previews_started,
                   downloads, vi_present>>
    /\ UNCHANGED <<batchVars, writerVars, folderVars, cleanVars, fileVars, pipeVars, parseVars, blockVars, tagVars, runVars, dlVars>>

\* on_view_pop and on_route_change (lines 130-170 of download_screen.py):
\* the top view is popped and the page goes to the route of the view below,
\* which rebuilds the root view.
ViewPop ==
    /\ Len(views) > 1
    /\ views' = <<RootView>>
    /\ UNCHANGED <<download_disabled, preview_disabled, play_visible, status_text,
                   last_downloaded_video_path, video_file, preview_threads, previews_started,
                   downloads, en_present, en_hidden, vi_present>>
    /\ UNCHANGED <<batchVars, writerVars, folderVars, cleanVars, fileVars, pipeVars, parseVars, blockVars, tagVars, runVars, dlVars>>

NextGui ==
    \/ InvalidInput
    \/ PreviewClick
    \/ PreviewThreadLoaded
    \/ PreviewThreadFailed
    \/ DownloadClick
    \/ DownloadReturns
    \/ DownloadStatus
    \/ DownloadError
    \/ DownloadFinally
    \/ PlayClick
    \/ BackClick
    \/ ViewPop

(***************************************************************************)
(* The specifications, one per operation.                                  *)
(***************************************************************************)
\* A call of _translate_batch; the other operations are idle.
InitSpecBatch ==
    /\ texts \in SeqsUpTo(SrcTexts, MaxTexts)
    /\ batch_size \in 1..MaxBatchSize
    /\ progress_callback \in BOOLEAN
    /\ batch_idx = 0
    /\ translated_texts = <<>>
    /\ response = <<>>
    /\ pc = "loop"
    /\ api_calls = <<>>
    /\ sleeps = 0
    /\ outcomes = <<>>
    /\ entries = <<>>
    /\ wr_translated = <<>>
    /\ vtt_content = <<>>
    /\ wpc = "idle"
    /\ folder = {}
    /\ ts_call = [folder |-> {}, target_language |-> "Vietnamese", api_key |-> FALSE]
    /\ ts_result = <<>>
    /\ translator_calls = <<>>
    /\ ts_path = "idle"
    /\ TRANSLATION_ENABLED = TRUE
    /\ content = <<>>
    /\ remove_artifacts = TRUE
    /\ remove_html_tags = TRUE
    /\ block_results = <<>>
    /\ cpc = "idle"
    /\ disk = [exists |-> FALSE, lines |-> <<>>]
    /\ old_disk = [exists |-> FALSE, lines |-> <<>>]
    /\ fpc = "idle"
    /\ tv_callback = FALSE
    /\ tv_nbatches = 1
    /\ tv_pc = "idle"
    /\ tv_batch = 0
    /\ tv_outcomes = <<>>
    /\ tv_written = FALSE
    /\ tv_result = "none"
    /\ tv_raised_at = <<>>
    /\ p_content = <<>>
    /\ p_entries = <<>>
    /\ p_written = <<>>
    /\ p_reparsed = <<>>
    /\ ppc = "idle"
    /\ b_lines = <<>>
    /\ b_ra = TRUE
    /\ b_rh = TRUE
    /\ b_result = [keep |-> FALSE, lines |-> <<>>]
    /\ bpc = "idle"
    /\ t_text = <<>>
    /\ t_result = <<>>
    /\ t_again = <<>>
    /\ tpc = "idle"
    /\ degraded = {}
    /\ dl_callback = FALSE
    /\ attempt = 0
    /\ dl_options = <<>>
    /\ dl_errors = <<>>
    /\ dl_sleeps = 0
    /\ dl_result = "none"
    /\ dl_pc = "idle"
    /\ download_disabled = TRUE
    /\ preview_disabled = FALSE
    /\ play_visible = FALSE
    /\ status_text = "ready"
    /\ last_downloaded_video_path = FALSE
    /\ video_file = FALSE
    /\ preview_threads = 0
    /\ previews_started = 0
    /\ downloads = <<>>
    /\ views = <<>>
    /\ en_present = FALSE
    /\ en_hidden = FALSE
    /\ vi_present = FALSE

\* A call of _create_translated_vtt; the other operations are idle.
InitSpecWriter ==
    /\ texts = <<>>
    /\ batch_size = 1
    /\ progress_callback = FALSE
    /\ batch_idx = 0
    /\ translated_texts = <<>>
    /\ response = <<>>
    /\ pc = "idle"
    /\ api_calls = <<>>
    /\ sleeps = 0
    /\ outcomes = <<>>
    /\ entries \in SeqsUpTo({e \in VTTEntries : <<e.start_time, e.end_time>> \in Timings},
                            MaxEntries)
    /\ \E n \in 0..MaxTranslated : wr_translated = [i \in 1..n |-> TranslatedText(i)]
    /\ vtt_content = <<>>
    /\ wpc = "ready"
    /\ folder = {}
    /\ ts_call = [folder |-> {}, target_language |-> "Vietnamese", api_key |-> FALSE]
    /\ ts_result = <<>>
    /\ translator_calls = <<>>
    /\ ts_path = "idle"
    /\ TRANSLATION_ENABLED = TRUE
    /\ content = <<>>
    /\ remove_artifacts = TRUE
    /\ remove_html_tags = TRUE
    /\ block_results = <<>>
    /\ cpc = "idle"
    /\ disk = [exists |-> FALSE, lines |-> <<>>]
    /\ old_disk = [exists |-> FALSE, lines |-> <<>>]
    /\ fpc = "idle"
    /\ tv_callback = FALSE
    /\ tv_nbatches = 1
    /\ tv_pc = "idle"
    /\ tv_batch = 0
    /\ tv_outcomes = <<>>
    /\ tv_written = FALSE
    /\ tv_result = "none"
    /\ tv_raised_at = <<>>
    /\ p_content = <<>>
    /\ p_entries = <<>>
    /\ p_written = <<>>
    /\ p_reparsed = <<>>
    /\ ppc = "idle"
    /\ b_lines = <<>>
    /\ b_ra = TRUE
    /\ b_rh = TRUE
    /\ b_result = [keep |-> FALSE, lines |-> <<>>]
    /\ bpc = "idle"
    /\ t_text = <<>>
    /\ t_result = <<>>
    /\ t_again = <<>>
    /\ tpc = "idle"
    /\ degraded = {}
    /\ dl_callback = FALSE
    /\ attempt = 0
    /\ dl_options = <<>>
    /\ dl_errors = <<>>
    /\ dl_sleeps = 0
    /\ dl_result = "none"
    /\ dl_pc = "idle"
    /\ download_disabled = TRUE
    /\ preview_disabled = FALSE
    /\ play_visible = FALSE
    /\ status_text = "ready"
    /\ last_downloaded_video_path = FALSE
    /\ video_file = FALSE
    /\ preview_threads = 0
    /\ previews_started = 0
    /\ downloads = <<>>
    /\ views = <<>>
    /\ en_present = FALSE
    /\ en_hidden = FALSE
    /\ vi_present = FALSE

\* A folder before translate_subtitle_files is called; the other operations are idle.
InitSpecFolder ==
    /\ texts = <<>>
    /\ batch_size = 1
    /\ progress_callback = FALSE
    /\ batch_idx = 0
    /\ translated_texts = <<>>
    /\ response = <<>>
    /\ pc = "idle"
    /\ api_calls = <<>>
    /\ sleeps = 0
    /\ outcomes = <<>>
    /\ entries = <<>>
    /\ wr_translated = <<>>
    /\ vtt_content = <<>>
    /\ wpc = "idle"
    /\ folder \in {d \in SUBSET FilePool : Cardinality(d) <= MaxFiles}
    /\ ts_call = [folder |-> {}, target_language |-> "Vietnamese", api_key |-> FALSE]
    /\ ts_result = <<>>
    /\ translator_calls = <<>>
    /\ ts_path = "none"
    /\ TRANSLATION_ENABLED \in BOOLEAN
    /\ content = <<>>
    /\ remove_artifacts = TRUE
    /\ remove_html_tags = TRUE
    /\ block_results = <<>>
    /\ cpc = "idle"
    /\ disk = [exists |-> FALSE, lines |-> <<>>]
    /\ old_disk = [exists |-> FALSE, lines |-> <<>>]
    /\ fpc = "idle"
    /\ tv_callback = FALSE
    /\ tv_nbatches = 1
    /\ tv_pc = "idle"
    /\ tv_batch = 0
    /\ tv_outcomes = <<>>
    /\ tv_written = FALSE
    /\ tv_result = "none"
    /\ tv_raised_at = <<>>
    /\ p_content = <<>>
    /\ p_entries = <<>>
    /\ p_written = <<>>
    /\ p_reparsed = <<>>
    /\ ppc = "idle"
    /\ b_lines = <<>>
    /\ b_ra = TRUE
    /\ b_rh = TRUE
    /\ b_result = [keep |-> FALSE, lines |-> <<>>]
    /\ bpc = "idle"
    /\ t_text = <<>>
    /\ t_result = <<>>
    /\ t_again = <<>>
    /\ tpc = "idle"
    /\ degraded = {}
    /\ dl_callback = FALSE
    /\ attempt = 0
    /\ dl_options = <<>>
    /\ dl_errors = <<>>
    /\ dl_sleeps = 0
    /\ dl_result = "none"
    /\ dl_pc = "idle"
    /\ download_disabled = TRUE
    /\ preview_disabled = FALSE
    /\ play_visible = FALSE
    /\ status_text = "ready"
    /\ last_downloaded_video_path = FALSE
    /\ video_file = FALSE
    /\ preview_threads = 0
    /\ previews_started = 0
    /\ downloads = <<>>
    /\ views = <<>>
    /\ en_present = FALSE
    /\ en_hidden = FALSE
    /\ vi_present = FALSE

\* A caption file before it is cleaned; the other operations are idle.
InitSpecClean ==
    /\ texts = <<>>
    /\ batch_size = 1
    /\ progress_callback = FALSE
    /\ batch_idx = 0
    /\ translated_texts = <<>>
    /\ response = <<>>
    /\ pc = "idle"
    /\ api_calls = <<>>
    /\ sleeps = 0
    /\ outcomes = <<>>
    /\ entries = <<>>
    /\ wr_translated = <<>>
    /\ vtt_content = <<>>
    /\ wpc = "idle"
    /\ folder = {}
    /\ ts_call = [folder |-> {}, target_language |-> "Vietnamese", api_key |-> FALSE]
    /\ ts_result = <<>>
    /\ translator_calls = <<>>
    /\ ts_path = "idle"
    /\ TRANSLATION_ENABLED = TRUE
    /\ content \in SeqsUpTo(LinePool, MaxFileLines)
    /\ remove_artifacts = TRUE
    /\ remove_html_tags = TRUE
    /\ block_results = <<>>
    /\ cpc = "ready"
    /\ disk = [exists |-> FALSE, lines |-> <<>>]
    /\ old_disk = [exists |-> FALSE, lines |-> <<>>]
    /\ fpc = "idle"
    /\ tv_callback = FALSE
    /\ tv_nbatches = 1
    /\ tv_pc = "idle"
    /\ tv_batch = 0
    /\ tv_outcomes = <<>>
    /\ tv_written = FALSE
    /\ tv_result = "none"
    /\ tv_raised_at = <<>>
    /\ p_content = <<>>
    /\ p_entries = <<>>
    /\ p_written = <<>>
    /\ p_reparsed = <<>>
    /\ ppc = "idle"
    /\ b_lines = <<>>
    /\ b_ra = TRUE
    /\ b_rh = TRUE
    /\ b_result = [keep |-> FALSE, lines |-> <<>>]
    /\ bpc = "idle"
    /\ t_text = <<>>
    /\ t_result = <<>>
    /\ t_again = <<>>
    /\ tpc = "idle"
    /\ degraded = {}
    /\ dl_callback = FALSE
    /\ attempt = 0
    /\ dl_options = <<>>
    /\ dl_errors = <<>>
    /\ dl_sleeps = 0
    /\ dl_result = "none"
    /\ dl_pc = "idle"
    /\ download_disabled = TRUE
    /\ preview_disabled = FALSE
    /\ play_visible = FALSE
    /\ status_text = "ready"
    /\ last_downloaded_video_path = FALSE
    /\ video_file = FALSE
    /\ preview_threads = 0
    /\ previews_started = 0
    /\ downloads = <<>>
    /\ views = <<>>
    /\ en_present = FALSE
    /\ en_hidden = FALSE
    /\ vi_present = FALSE

SpecBatch == InitSpecBatch /\ [][NextBatch]_vars

SpecWriter == InitSpecWriter /\ [][NextWriter]_vars

SpecFolder == InitSpecFolder /\ [][NextFolder]_vars

SpecClean == InitSpecClean /\ [][NextClean]_vars

\* The destination file before _create_translated_vtt writes it.
InitSpecWrite ==
    /\ texts = <<>>
    /\ batch_size = 1
    /\ progress_callback = FALSE
    /\ batch_idx = 0
    /\ translated_texts = <<>>
    /\ response = <<>>
    /\ pc = "idle"
    /\ api_calls = <<>>
    /\ sleeps = 0
    /\ outcomes = <<>>
    /\ entries \in SeqsUpTo({e \in VTTEntries : <<e.start_time, e.end_time>> \in Timings},
                            MaxEntries)
    /\ \E n \in 0..MaxTranslated : wr_translated = [i \in 1..n |-> TranslatedText(i)]
    /\ vtt_content = <<>>
    /\ wpc = "idle"
    /\ folder = {}
    /\ ts_call = [folder |-> {}, target_language |-> "Vietnamese", api_key |-> FALSE]
    /\ ts_result = <<>>
    /\ translator_calls = <<>>
    /\ ts_path = "idle"
    /\ TRANSLATION_ENABLED = TRUE
    /\ content = <<>>
    /\ remove_artifacts = TRUE
    /\ remove_html_tags = TRUE
    /\ block_results = <<>>
    /\ cpc = "idle"
    /\ old_disk \in OldFiles
    /\ disk = old_disk
    /\ fpc = "ready"
    /\ tv_callback = FALSE
    /\ tv_nbatches = 1
    /\ tv_pc = "idle"
    /\ tv_batch = 0
    /\ tv_outcomes = <<>>
    /\ tv_written = FALSE
    /\ tv_result = "none"
    /\ tv_raised_at = <<>>
    /\ p_content = <<>>
    /\ p_entries = <<>>
    /\ p_written = <<>>
    /\ p_reparsed = <<>>
    /\ ppc = "idle"
    /\ b_lines = <<>>
    /\ b_ra = TRUE
    /\ b_rh = TRUE
    /\ b_result = [keep |-> FALSE, lines |-> <<>>]
    /\ bpc = "idle"
    /\ t_text = <<>>
    /\ t_result = <<>>
    /\ t_again = <<>>
    /\ tpc = "idle"
    /\ degraded = {}
    /\ dl_callback = FALSE
    /\ attempt = 0
    /\ dl_options = <<>>
    /\ dl_errors = <<>>
    /\ dl_sleeps = 0
    /\ dl_result = "none"
    /\ dl_pc = "idle"
    /\ download_disabled = TRUE
    /\ preview_disabled = FALSE
    /\ play_visible = FALSE
    /\ status_text = "ready"
    /\ last_downloaded_video_path = FALSE
    /\ video_file = FALSE
    /\ preview_threads = 0
    /\ previews_started = 0
    /\ downloads = <<>>
    /\ views = <<>>
    /\ en_present = FALSE
    /\ en_hidden = FALSE
    /\ vi_present = FALSE

SpecWrite == InitSpecWrite /\ [][NextWrite]_vars

\* A call of translate_vtt_file; the other operations are idle.
InitSpecPipe ==
    /\ texts = <<>>
    /\ batch_size = 1
    /\ progress_callback = FALSE
    /\ batch_idx = 0
    /\ translated_texts = <<>>
    /\ response = <<>>
    /\ pc = "idle"
    /\ api_calls = <<>>
    /\ sleeps = 0
    /\ outcomes = <<>>
    /\ entries = <<>>
    /\ wr_translated = <<>>
    /\ vtt_content = <<>>
    /\ wpc = "idle"
    /\ folder = {}
    /\ ts_call = [folder |-> {}, target_language |-> "Vietnamese", api_key |-> FALSE]
    /\ ts_result = <<>>
    /\ translator_calls = <<>>
    /\ ts_path = "idle"
    /\ TRANSLATION_ENABLED = TRUE
    /\ content = <<>>
    /\ remove_artifacts = TRUE
    /\ remove_html_tags = TRUE
    /\ block_results = <<>>
    /\ cpc = "idle"
    /\ disk = [exists |-> FALSE, lines |-> <<>>]
    /\ old_disk = [exists |-> FALSE, lines |-> <<>>]
    /\ fpc = "idle"
    /\ tv_callback \in BOOLEAN
    /\ tv_nbatches \in 1..MaxBatches
    /\ tv_pc = "start"
    /\ tv_batch = 0
    /\ tv_outcomes = <<>>
    /\ tv_written = FALSE
    /\ tv_result = "none"
    /\ tv_raised_at = <<>>
    /\ p_content = <<>>
    /\ p_entries = <<>>
    /\ p_written = <<>>
    /\ p_reparsed = <<>>
    /\ ppc = "idle"
    /\ b_lines = <<>>
    /\ b_ra = TRUE
    /\ b_rh = TRUE
    /\ b_result = [keep |-> FALSE, lines |-> <<>>]
    /\ bpc = "idle"
    /\ t_text = <<>>
    /\ t_result = <<>>
    /\ t_again = <<>>
    /\ tpc = "idle"
    /\ degraded = {}
    /\ dl_callback = FALSE
    /\ attempt = 0
    /\ dl_options = <<>>
    /\ dl_errors = <<>>
    /\ dl_sleeps = 0
    /\ dl_result = "none"
    /\ dl_pc = "idle"
    /\ download_disabled = TRUE
    /\ preview_disabled = FALSE
    /\ play_visible = FALSE
    /\ status_text = "ready"
    /\ last_downloaded_video_path = FALSE
    /\ video_file = FALSE
    /\ preview_threads = 0
    /\ previews_started = 0
    /\ downloads = <<>>
    /\ views = <<>>
    /\ en_present = FALSE
    /\ en_hidden = FALSE
    /\ vi_present = FALSE

SpecPipe == InitSpecPipe /\ [][NextPipe]_vars

\* A caption file before it is parsed; the other operations are idle.
InitSpecParse ==
    /\ texts = <<>>
    /\ batch_size = 1
    /\ progress_callback = FALSE
    /\ batch_idx = 0
    /\ translated_texts = <<>>
    /\ response = <<>>
    /\ pc = "idle"
    /\ api_calls = <<>>
    /\ sleeps = 0
    /\ outcomes = <<>>
    /\ entries = <<>>
    /\ wr_translated = <<>>
    /\ vtt_content = <<>>
    /\ wpc = "idle"
    /\ folder = {}
    /\ ts_call = [folder |-> {}, target_language |-> "Vietnamese", api_key |-> FALSE]
    /\ ts_result = <<>>
    /\ translator_calls = <<>>
    /\ ts_path = "idle"
    /\ TRANSLATION_ENABLED = TRUE
    /\ content = <<>>
    /\ remove_artifacts = TRUE
    /\ remove_html_tags = TRUE
    /\ block_results = <<>>
    /\ cpc = "idle"
    /\ disk = [exists |-> FALSE, lines |-> <<>>]
    /\ old_disk = [exists |-> FALSE, lines |-> <<>>]
    /\ fpc = "idle"
    /\ tv_callback = FALSE
    /\ tv_nbatches = 1
    /\ tv_pc = "idle"
    /\ tv_batch = 0
    /\ tv_outcomes = <<>>
    /\ tv_written = FALSE
    /\ tv_result = "none"
    /\ tv_raised_at = <<>>
    /\ p_content \in SeqsUpTo(ParseLinePool, MaxFileLines)
    /\ p_entries = <<>>
    /\ p_written = <<>>
    /\ p_reparsed = <<>>
    /\ ppc = "ready"
    /\ b_lines = <<>>
    /\ b_ra = TRUE
    /\ b_rh = TRUE
    /\ b_result = [keep |-> FALSE, lines |-> <<>>]
    /\ bpc = "idle"
    /\ t_text = <<>>
    /\ t_result = <<>>
    /\ t_again = <<>>
    /\ tpc = "idle"
    /\ degraded = {}
    /\ dl_callback = FALSE
    /\ attempt = 0
    /\ dl_options = <<>>
    /\ dl_errors = <<>>
    /\ dl_sleeps = 0
    /\ dl_result = "none"
    /\ dl_pc = "idle"
    /\ download_disabled = TRUE
    /\ preview_disabled = FALSE
    /\ play_visible = FALSE
    /\ status_text = "ready"
    /\ last_downloaded_video_path = FALSE
    /\ video_file = FALSE
    /\ preview_threads = 0
    /\ previews_started = 0
    /\ downloads = <<>>
    /\ views = <<>>
    /\ en_present = FALSE
    /\ en_hidden = FALSE
    /\ vi_present = FALSE

SpecParse == InitSpecParse /\ [][NextParse]_vars

\* The entries and the translated texts that translate_vtt_file hands to
\* _create_translated_vtt, the texts being segments of service responses.
InitSpecLayout ==
    /\ texts = <<>>
    /\ batch_size = 1
    /\ progress_callback = FALSE
    /\ batch_idx = 0
    /\ translated_texts = <<>>
    /\ response = <<>>
    /\ pc = "idle"
    /\ api_calls = <<>>
    /\ sleeps = 0
    /\ outcomes = <<>>
    /\ entries \in SeqsUpTo({e \in VTTEntries : <<e.start_time, e.end_time>> \in Timings},
                            MaxEntries)
    /\ wr_translated \in SeqsUpTo(SegmentTexts, MaxTranslated)
    /\ vtt_content = <<>>
    /\ wpc = "ready"
    /\ folder = {}
    /\ ts_call = [folder |-> {}, target_language |-> "Vietnamese", api_key |-> FALSE]
    /\ ts_result = <<>>
    /\ translator_calls = <<>>
    /\ ts_path = "idle"
    /\ TRANSLATION_ENABLED = TRUE
    /\ content = <<>>
    /\ remove_artifacts = TRUE
    /\ remove_html_tags = TRUE
    /\ block_results = <<>>
    /\ cpc = "idle"
    /\ disk = [exists |-> FALSE, lines |-> <<>>]
    /\ old_disk = [exists |-> FALSE, lines |-> <<>>]
    /\ fpc = "idle"
    /\ tv_callback = FALSE
    /\ tv_nbatches = 1
    /\ tv_pc = "idle"
    /\ tv_batch = 0
    /\ tv_outcomes = <<>>
    /\ tv_written = FALSE
    /\ tv_result = "none"
    /\ tv_raised_at = <<>>
    /\ p_content = <<>>
    /\ p_entries = <<>>
    /\ p_written = <<>>
    /\ p_reparsed = <<>>
    /\ ppc = "idle"
    /\ b_lines = <<>>
    /\ b_ra = TRUE
    /\ b_rh = TRUE
    /\ b_result = [keep |-> FALSE, lines |-> <<>>]
    /\ bpc = "idle"
    /\ t_text = <<>>
    /\ t_result = <<>>
    /\ t_again = <<>>
    /\ tpc = "idle"
    /\ degraded = {}
    /\ dl_callback = FALSE
    /\ attempt = 0
    /\ dl_options = <<>>
    /\ dl_errors = <<>>
    /\ dl_sleeps = 0
    /\ dl_result = "none"
    /\ dl_pc = "idle"
    /\ download_disabled = TRUE
    /\ preview_disabled = FALSE
    /\ play_visible = FALSE
    /\ status_text = "ready"
    /\ last_downloaded_video_path = FALSE
    /\ video_file = FALSE
    /\ preview_threads = 0
    /\ previews_started = 0
    /\ downloads = <<>>
    /\ views = <<>>
    /\ en_present = FALSE
    /\ en_hidden = FALSE
    /\ vi_present = FALSE

SpecLayout == InitSpecLayout /\ [][NextWriter]_vars

\* A call of _clean_vtt_block; the other operations are idle.
InitSpecBlock ==
    /\ texts = <<>>
    /\ batch_size = 1
    /\ progress_callback = FALSE
    /\ batch_idx = 0
    /\ translated_texts = <<>>
    /\ response = <<>>
    /\ pc = "idle"
    /\ api_calls = <<>>
    /\ sleeps = 0
    /\ outcomes = <<>>
    /\ entries = <<>>
    /\ wr_translated = <<>>
    /\ vtt_content = <<>>
    /\ wpc = "idle"
    /\ folder = {}
    /\ ts_call = [folder |-> {}, target_language |-> "Vietnamese", api_key |-> FALSE]
    /\ ts_result = <<>>
    /\ translator_calls = <<>>
    /\ ts_path = "idle"
    /\ TRANSLATION_ENABLED = TRUE
    /\ content = <<>>
    /\ remove_artifacts = TRUE
    /\ remove_html_tags = TRUE
    /\ block_results = <<>>
    /\ cpc = "idle"
    /\ disk = [exists |-> FALSE, lines |-> <<>>]
    /\ old_disk = [exists |-> FALSE, lines |-> <<>>]
    /\ fpc = "idle"
    /\ tv_callback = FALSE
    /\ tv_nbatches = 1
    /\ tv_pc = "idle"
    /\ tv_batch = 0
    /\ tv_outcomes = <<>>
    /\ tv_written = FALSE
    /\ tv_result = "none"
    /\ tv_raised_at = <<>>
    /\ p_content = <<>>
    /\ p_entries = <<>>
    /\ p_written = <<>>
    /\ p_reparsed = <<>>
    /\ ppc = "idle"
    /\ b_lines \in SeqsUpTo(BlockLinePool, MaxBlockLines)
    /\ b_ra \in BOOLEAN
    /\ b_rh \in BOOLEAN
    /\ b_result = [keep |-> FALSE, lines |-> <<>>]
    /\ bpc = "ready"
    /\ t_text = <<>>
    /\ t_result = <<>>
    /\ t_again = <<>>
    /\ tpc = "idle"
    /\ degraded = {}
    /\ dl_callback = FALSE
    /\ attempt = 0
    /\ dl_options = <<>>
    /\ dl_errors = <<>>
    /\ dl_sleeps = 0
    /\ dl_result = "none"
    /\ dl_pc = "idle"
    /\ download_disabled = TRUE
    /\ preview_disabled = FALSE
    /\ play_visible = FALSE
    /\ status_text = "ready"
    /\ last_downloaded_video_path = FALSE
    /\ video_file = FALSE
    /\ preview_threads = 0
    /\ previews_started = 0
    /\ downloads = <<>>
    /\ views = <<>>
    /\ en_present = FALSE
    /\ en_hidden = FALSE
    /\ vi_present = FALSE

SpecBlock == InitSpecBlock /\ [][NextBlock]_vars

\* A call of clean_html_tags; the other operations are idle.
InitSpecTags ==
    /\ texts = <<>>
    /\ batch_size = 1
    /\ progress_callback = FALSE
    /\ batch_idx = 0
    /\ translated_texts = <<>>
    /\ response = <<>>
    /\ pc = "idle"
    /\ api_calls = <<>>
    /\ sleeps = 0
    /\ outcomes = <<>>
    /\ entries = <<>>
    /\ wr_translated = <<>>
    /\ vtt_content = <<>>
    /\ wpc = "idle"
    /\ folder = {}
    /\ ts_call = [folder |-> {}, target_language |-> "Vietnamese", api_key |-> FALSE]
    /\ ts_result = <<>>
    /\ translator_calls = <<>>
    /\ ts_path = "idle"
    /\ TRANSLATION_ENABLED = TRUE
    /\ content = <<>>
    /\ remove_artifacts = TRUE
    /\ remove_html_tags = TRUE
    /\ block_results = <<>>
    /\ cpc = "idle"
    /\ disk = [exists |-> FALSE, lines |-> <<>>]
    /\ old_disk = [exists |-> FALSE, lines |-> <<>>]
    /\ fpc = "idle"
    /\ tv_callback = FALSE
    /\ tv_nbatches = 1
    /\ tv_pc = "idle"
    /\ tv_batch = 0
    /\ tv_outcomes = <<>>
    /\ tv_written = FALSE
    /\ tv_result = "none"
    /\ tv_raised_at = <<>>
    /\ p_content = <<>>
    /\ p_entries = <<>>
    /\ p_written = <<>>
    /\ p_reparsed = <<>>
    /\ ppc = "idle"
    /\ b_lines = <<>>
    /\ b_ra = TRUE
    /\ b_rh = TRUE
    /\ b_result = [keep |-> FALSE, lines |-> <<>>]
    /\ bpc = "idle"
    /\ t_text \in SeqsUpTo(TextTokens, MaxTextLen)
    /\ t_result = <<>>
    /\ t_again = <<>>
    /\ tpc = "ready"
    /\ degraded = {}
    /\ dl_callback = FALSE
    /\ attempt = 0
    /\ dl_options = <<>>
    /\ dl_errors = <<>>
    /\ dl_sleeps = 0
    /\ dl_result = "none"
    /\ dl_pc = "idle"
    /\ download_disabled = TRUE
    /\ preview_disabled = FALSE
    /\ play_visible = FALSE
    /\ status_text = "ready"
    /\ last_downloaded_video_path = FALSE
    /\ video_file = FALSE
    /\ preview_threads = 0
    /\ previews_started = 0
    /\ downloads = <<>>
    /\ views = <<>>
    /\ en_present = FALSE
    /\ en_hidden = FALSE
    /\ vi_present = FALSE

SpecTags == InitSpecTags /\ [][NextTags]_vars

\* A call of download_youtube_video; the other operations are idle.
InitSpecDownload ==
    /\ texts = <<>>
    /\ batch_size = 1
    /\ progress_callback = FALSE
    /\ batch_idx = 0
    /\ translated_texts = <<>>
    /\ response = <<>>
    /\ pc = "idle"
    /\ api_calls = <<>>
    /\ sleeps = 0
    /\ outcomes = <<>>
    /\ entries = <<>>
    /\ wr_translated = <<>>
    /\ vtt_content = <<>>
    /\ wpc = "idle"
    /\ folder = {}
    /\ ts_call = [folder |-> {}, target_language |-> "Vietnamese", api_key |-> FALSE]
    /\ ts_result = <<>>
    /\ translator_calls = <<>>
    /\ ts_path = "idle"
    /\ TRANSLATION_ENABLED = TRUE
    /\ content = <<>>
    /\ remove_artifacts = TRUE
    /\ remove_html_tags = TRUE
    /\ block_results = <<>>
    /\ cpc = "idle"
    /\ disk = [exists |-> FALSE, lines |-> <<>>]
    /\ old_disk = [exists |-> FALSE, lines |-> <<>>]
    /\ fpc = "idle"
    /\ tv_callback = FALSE
    /\ tv_nbatches = 1
    /\ tv_pc = "idle"
    /\ tv_batch = 0
    /\ tv_outcomes = <<>>
    /\ tv_written = FALSE
    /\ tv_result = "none"
    /\ tv_raised_at = <<>>
    /\ p_content = <<>>
    /\ p_entries = <<>>
    /\ p_written = <<>>
    /\ p_reparsed = <<>>
    /\ ppc = "idle"
    /\ b_lines = <<>>
    /\ b_ra = TRUE
    /\ b_rh = TRUE
    /\ b_result = [keep |-> FALSE, lines |-> <<>>]
    /\ bpc = "idle"
    /\ t_text = <<>>
    /\ t_result = <<>>
    /\ t_again = <<>>
    /\ tpc = "idle"
    /\ degraded = {}
    /\ dl_callback \in BOOLEAN
    /\ attempt = 0
    /\ dl_options = <<>>
    /\ dl_errors = <<>>
    /\ dl_sleeps = 0
    /\ dl_result = "none"
    /\ dl_pc = "ready"
    /\ download_disabled = TRUE
    /\ preview_disabled = FALSE
    /\ play_visible = FALSE
    /\ status_text = "ready"
    /\ last_downloaded_video_path = FALSE
    /\ video_file = FALSE
    /\ preview_threads = 0
    /\ previews_started = 0
    /\ downloads = <<>>
    /\ views = <<>>
    /\ en_present = FALSE
    /\ en_hidden = FALSE
    /\ vi_present = FALSE

SpecDownload == InitSpecDownload /\ [][NextDownload]_vars

\* The download screen as main() builds it, in a folder that may hold
\* the files of an earlier download; the other operations are idle.
InitSpecGui ==
    /\ texts = <<>>
    /\ batch_size = 1
    /\ progress_callback = FALSE
    /\ batch_idx = 0
    /\ translated_texts = <<>>
    /\ response = <<>>
    /\ pc = "idle"
    /\ api_calls = <<>>
    /\ sleeps = 0
    /\ outcomes = <<>>
    /\ entries = <<>>
    /\ wr_translated = <<>>
    /\ vtt_content = <<>>
    /\ wpc = "idle"
    /\ folder = {}
    /\ ts_call = [folder |-> {}, target_language |-> "Vietnamese", api_key |-> FALSE]
    /\ ts_result = <<>>
    /\ translator_calls = <<>>
    /\ ts_path = "idle"
    /\ TRANSLATION_ENABLED = TRUE
    /\ content = <<>>
    /\ remove_artifacts = TRUE
    /\ remove_html_tags = TRUE
    /\ block_results = <<>>
    /\ cpc = "idle"
    /\ disk = [exists |-> FALSE, lines |-> <<>>]
    /\ old_disk = [exists |-> FALSE, lines |-> <<>>]
    /\ fpc = "idle"
    /\ tv_callback = FALSE
    /\ tv_nbatches = 1
    /\ tv_pc = "idle"
    /\ tv_batch = 0
    /\ tv_outcomes = <<>>
    /\ tv_written = FALSE
    /\ tv_result = "none"
    /\ tv_raised_at = <<>>
    /\ p_content = <<>>
    /\ p_entries = <<>>
    /\ p_written = <<>>
    /\ p_reparsed = <<>>
    /\ ppc = "idle"
    /\ b_lines = <<>>
    /\ b_ra = TRUE
    /\ b_rh = TRUE
    /\ b_result = [keep |-> FALSE, lines |-> <<>>]
    /\ bpc = "idle"
    /\ t_text = <<>>
    /\ t_result = <<>>
    /\ t_again = <<>>
    /\ tpc = "idle"
    /\ degraded = {}
    /\ dl_callback = FALSE
    /\ attempt = 0
    /\ dl_options = <<>>
    /\ dl_errors = <<>>
    /\ dl_sleeps = 0
    /\ dl_result = "none"
    /\ dl_pc = "idle"
    /\ download_disabled = TRUE
    /\ preview_disabled = FALSE
    /\ play_visible = FALSE
    /\ status_text = "ready"
    /\ last_downloaded_video_path = FALSE
    /\ video_file \in BOOLEAN
    /\ preview_threads = 0
    /\ previews_started = 0
    /\ downloads = <<>>
    /\ views = <<RootView>>
    /\ en_present \in BOOLEAN
    /\ en_hidden = FALSE
    /\ vi_present \in BOOLEAN

SpecGui == InitSpecGui /\ [][NextGui]_vars

(***************************************************************************)
(* The claims.                                                             *)
(***************************************************************************)
\* The part of list s that belongs to the j-th batch (what s holds of it).
BatchSlice(s, j) ==
    SubSeq(s, (j - 1) * batch_size + 1, Min(Min(j * batch_size, Len(texts)), Len(s)))

TranslationsOf(ts) == [i \in DOMAIN ts |-> Tr(ts[i])]

\* C1: for every list of L texts and every batch size N >= 1, the list that
\* _translate_batch returns has exactly L texts, whatever the service did
\* for each batch (right count, too few, too many, or an error).
C1_OutputLength == pc = "returned" => Len(translated_texts) = Len(texts)

\* C1 witness: a call with 3 texts and batches of 2 has returned after a
\* response with too few segments and one with too many.
C1_Witness ==
    /\ pc = "returned"
    /\ Len(texts) = 3
    /\ batch_size = 2
    /\ outcomes = <<"few", "many">>

\* C2: when the service call of a batch raises, the output of that batch is
\* the batch's own source texts, the batches processed before keep their
\* translations, the loop goes on to the next batch (every batch gets an
\* outcome before the function returns), and the exception does not leave
\* _translate_batch (only a callback's exception can).
C2_ErrorFallback ==
    /\ \A j \in DOMAIN outcomes :
          outcomes[j] = "err" => BatchSlice(translated_texts, j) = BatchSlice(texts, j)
    /\ \A j \in DOMAIN outcomes :
          (outcomes[j] = "good" /\ (pc # "parse" \/ j < Len(outcomes)))
              => BatchSlice(translated_texts, j) = TranslationsOf(BatchSlice(texts, j))
    /\ pc \in {"loop", "returned"} => batch_idx = Len(outcomes) * batch_size
    /\ pc = "returned" => Len(outcomes) = TotalBatches(Len(texts), batch_size)
    /\ pc = "raised" => progress_callback

\* C2 witness: three batches of one text, the second one failed, and the
\* function returned the first and third translated around the original.
C2_Witness ==
    /\ pc = "returned"
    /\ batch_size = 1
    /\ texts = <<<<"a">>, <<"b">>, <<"a">>>>
    /\ outcomes = <<"good", "err", "good">>
    /\ translated_texts = <<<<"A">>, <<"b">>, <<"A">>>>

\* C3: when the response of a batch of n texts holds k segments, the step
\* that parses it adds exactly n items to the result: item i is segment i
\* for i <= min(k, n) and the batch's own text i for k < i <= n; segments
\* past n are discarded.
C3_Reconciliation ==
    [][pc = "parse" =>
        LET n == Len(Batch)
            segs == ParseSegments(response)
            k == Len(segs)
            added == SubSeq(translated_texts', Len(translated_texts) + 1,
                            Len(translated_texts'))
        IN /\ k = SegmentCount(response)
           /\ Len(added) = n
           /\ \A i \in 1..n : added[i] = IF i <= k THEN segs[i] ELSE Batch[i]]_vars

\* C3 witness: a batch of three texts got one segment: the result holds the
\* segment and then the second and third source text.
C3_Witness ==
    /\ pc = "loop"
    /\ batch_size = 3
    /\ texts = <<<<"a">>, <<"b">>, <<"a">>>>
    /\ outcomes = <<"few">>
    /\ translated_texts = <<<<"B">>, <<"b">>, <<"a">>>>

\* C4: with a service that returns one correctly delimited translation per
\* text, the returned list holds at position i the translation of text i,
\* for every batch size: the result does not depend on N.
C4_OrderPreserved ==
    (pc = "returned" /\ \A j \in DOMAIN outcomes : outcomes[j] = "good")
        => translated_texts = TranslationsOf(texts)

\* C4 witness: three texts in batches of two, both batches well answered.
C4_Witness ==
    /\ pc = "returned"
    /\ batch_size = 2
    /\ texts = <<<<"a">>, <<"b">>, <<"b">>>>
    /\ outcomes = <<"good", "good">>

\* A line of a block that _clean_vtt_block treats as text.
IsTextLine(line) == ~HasArrow(line) /\ NonBlank(line) /\ ~IsDigit(line)

TextLinesOf(block) == {i \in DOMAIN block : IsTextLine(block[i])}

\* C5: with artifact removal enabled, a block that holds a valid timing line
\* and whose text lines all contain artifact phrases is dropped entirely:
\* _clean_vtt_block returns (False, []) and the timing line is not in the
\* cleaned file.
C5_ArtifactBlockDropped ==
    (cpc = "cleaned" /\ remove_artifacts) =>
        \A b \in DOMAIN block_results :
            LET block == block_results[b].block
            IN (/\ \E i \in DOMAIN block : block[i] = TimingLine
                /\ TextLinesOf(block) # {}
                /\ \A i \in TextLinesOf(block) : HasArtifact(block[i]))
               => /\ block_results[b].result = [keep |-> FALSE, lines |-> <<>>]
                  /\ \A i \in DOMAIN content : content[i] # TimingLine

\* C6: after a file is cleaned with artifact removal and tag removal both
\* enabled, no line of the file contains an artifact phrase
\* (case-insensitively).
C6_NoArtifactInOutput ==
    (cpc = "cleaned" /\ remove_artifacts /\ remove_html_tags) =>
        \A i \in DOMAIN content : ~HasArtifact(content[i])

\* The text line written for the j-th entry (after the header, the blank
\* line, and three lines per entry).
TextLineAt(j) == vtt_content[2 + 3 * (j - 1) + 2]

\* The text the claim expects for entry j, `taking` being the entries that
\* take a translated text.
ExpectedText(j, taking) ==
    LET k == Cardinality({i \in 1..j : i \in taking})
    IN IF j \in taking /\ k <= Len(wr_translated)
       THEN wr_translated[k]
       ELSE entries[j].text

NonEmptyEntries == {j \in DOMAIN entries : entries[j].text # <<>>}

NonBlankEntries ==
    {j \in DOMAIN entries : \E i \in DOMAIN entries[j].text : ~IsSpace(entries[j].text[i])}

\* C7 as stated: the k-th entry with non-empty text is written with
\* translated_texts[k-1] (when there is one left), and every other entry with
\* its original text.
C7_CursorNonEmpty ==
    wpc = "written" => \A j \in DOMAIN entries : TextLineAt(j) = ExpectedText(j, NonEmptyEntries)

\* C7 as amended: the k-th entry whose text is not blank (not empty after
\* stripping whitespace) is written with translated_texts[k-1] when there is
\* one left; an entry with empty or whitespace-only text is written with its
\* original text and takes no translated text, and so is an entry for which
\* no translated text is left.
C7_CursorNonBlank ==
    wpc = "written" => \A j \in DOMAIN entries : TextLineAt(j) = ExpectedText(j, NonBlankEntries)

\* C7 witness: a whitespace-only entry, then two entries with text, and one
\* translated text: the first keeps its text, the second takes the
\* translation, the third is left with its original.
C7_Witness ==
    /\ wpc = "written"
    /\ Len(entries) = 3
    /\ entries[1].text = <<" ">>
    /\ entries[2].text = <<"a">>
    /\ entries[3].text = <<"b">>
    /\ Len(wr_translated) = 1
    /\ TextLineAt(1) = <<" ">>
    /\ TextLineAt(2) = wr_translated[1]
    /\ TextLineAt(3) = <<"b">>

\* translate_subtitle_files has been called.
TsfCalled == ts_path \notin {"none", "idle"}

\* The files of the folder of the call that are in the target language.
InTargetLanguage ==
    {f \in ts_call.folder : EndsWith(f, LanguageTag(ts_call.target_language))}

\* C8: if the folder holds a caption file in the requested target language,
\* whatever that language is, translate_subtitle_files returns that file
\* and neither invokes the translator nor writes a file.
C8_NativeTargetReused ==
    (TsfCalled /\ InTargetLanguage # {}) =>
        /\ translator_calls = <<>>
        /\ folder = ts_call.folder
        /\ ts_result # <<>>
        /\ Range(ts_result) \subseteq InTargetLanguage

NativeVi == {f \in ts_call.folder : EndsWith(f, ".vi")}

Untranslated == {f \in ts_call.folder : ~CodeInStem(f)}

ExpectedExisting ==
    {TranslatedStem(f, ts_call.target_language) : f \in ts_call.folder} \cap ts_call.folder

OncePerUntranslated ==
    /\ Len(translator_calls) = Cardinality(Untranslated)
    /\ \A f \in Untranslated : \E i \in DOMAIN translator_calls : translator_calls[i] = f

CarriesKnownTag(f) == Len(f) >= 2 /\ f[Len(f)] \in KnownCodes

UntaggedFiles == {f \in ts_call.folder : ~CarriesKnownTag(f)}

\* C11: translate_subtitle_files invokes the translator only when the folder
\* holds no file in the target language (native or translated before),
\* translation is enabled and a key is configured; then (the client being
\* there) it invokes it exactly once for every file whose name carries no
\* known language tag, and for no file that carries one.
C11_TranslatorOnlyWhenNeeded ==
    TsfCalled =>
        /\ (translator_calls # <<>>) =>
               (InTargetLanguage = {} /\ TRANSLATION_ENABLED /\ ts_call.api_key)
        /\ (InTargetLanguage = {} /\ TRANSLATION_ENABLED /\ ts_call.api_key
              /\ ts_path # "no_client") =>
               /\ Len(translator_calls) = Cardinality(UntaggedFiles)
               /\ Range(translator_calls) = UntaggedFiles

\* C12: if the folder holds no native file in the target language (every
\* file in the target language is the expected translated file of a caption
\* file of the folder) and holds such an expected file, translate_subtitle_files
\* returns the existing translated file(s), invokes the translator for no
\* file and writes nothing.
C12_ExistingTranslationReused ==
    (TsfCalled /\ ExpectedExisting # {} /\ InTargetLanguage \subseteq ExpectedExisting) =>
        /\ translator_calls = <<>>
        /\ folder = ts_call.folder
        /\ Range(ts_result) = ExpectedExisting

\* C13: the write of the translated file is all-or-nothing: at every moment,
\* also while the write is in progress or after it failed, the destination
\* path holds either what it held before the call or the complete new text.
C13_WriteAllOrNothing ==
    fpc # "idle" => (disk = old_disk \/ disk = [exists |-> TRUE, lines |-> FileData])

\* C14: an exception raised by the progress callback at a milestone of
\* translate_vtt_file is caught and ignored: the call (of a file that has
\* entries with text) still writes the translated file and returns its path,
\* and nothing is raised to the caller.
C14_CallbackExceptionIgnored ==
    (tv_pc = "returned" /\ tv_raised_at # <<>>) => (tv_result = "path" /\ tv_written)

\* C15: a rate-limit delay is performed between every two consecutive
\* batches, before the next service call is issued, whether the earlier batch
\* succeeded or fell back after an error; none is performed after the last
\* batch.
C15_DelayBetweenBatches ==
    /\ pc = "call" => sleeps = Len(api_calls) - 1
    /\ pc = "returned" => sleeps = Max(Len(api_calls) - 1, 0)

\* The texts of a list of batches, in order.
RECURSIVE Flatten(_)
Flatten(bs) == IF bs = <<>> THEN <<>> ELSE Head(bs) \o Flatten(Tail(bs))

\* C16: for L texts and batch size N >= 1, _translate_batch issues exactly
\* ceil(L/N) service calls: the k-th call carries the k-th contiguous slice
\* of N texts (the last may be shorter), so every text is sent in exactly one
\* batch and no batch twice; a call is issued only when every earlier call
\* has returned or raised.
C16_OneCallPerBatch ==
    /\ \A k \in DOMAIN api_calls :
          api_calls[k] = SubSeq(texts, (k - 1) * batch_size + 1,
                                Min(k * batch_size, Len(texts)))
    /\ Len(api_calls) = Len(outcomes) + (IF pc = "call" THEN 1 ELSE 0)
    /\ pc = "returned" =>
          /\ Len(api_calls) = TotalBatches(Len(texts), batch_size)
          /\ Flatten(api_calls) = texts

\* C16 witness: three texts in batches of two were sent in two calls, the
\* first of which raised.
C16_Witness ==
    /\ pc = "returned"
    /\ texts = <<<<"a">>, <<"b">>, <<"a">>>>
    /\ batch_size = 2
    /\ api_calls = <<<<<<"a">>, <<"b">>>>, <<<<"a">>>>>>
    /\ outcomes[1] = "err"

\* The well-formed timing lines of a block.
WellFormedTimings(block) == SelectSeq(block, LAMBDA l : TimingMatch(l).ok)

\* A block that is not empty, does not start with the format header and
\* holds a well-formed timing line.
TimedBlock(block) ==
    /\ \E i \in DOMAIN block : NonBlank(block[i])
    /\ ~StartsWithHeader(block[1])
    /\ WellFormedTimings(block) # <<>>

\* C17: _parse_vtt_file yields exactly one entry, in file order, for every
\* block that is not empty, does not start with the header and holds a
\* well-formed timing line, and none for any other block.
C17_OneEntryPerTimedBlock ==
    ppc \in {"parsed", "written", "reparsed"} =>
        LET timed == SelectSeq(BlocksOf(p_content), TimedBlock)
        IN /\ Len(p_entries) = Len(timed)
           /\ \A k \in DOMAIN timed :
                 k <= Len(p_entries) =>
                     /\ p_entries[k].start_time = TimingMatch(WellFormedTimings(timed[k])[1]).start_time
                     /\ p_entries[k].end_time = TimingMatch(WellFormedTimings(timed[k])[1]).end_time

\* The (start_time, end_time, text) of the entries.
Cues(es) == [i \in DOMAIN es |-> <<es[i].start_time, es[i].end_time, es[i].text>>]

\* C18: parsing a caption file, writing the entries back with their own
\* texts as the translated texts, and parsing the written file gives the
\* same sequence of (start_time, end_time, text).
C18_RoundTrip == ppc = "reparsed" => Cues(p_reparsed) = Cues(p_entries)

\* The language tags a caption file name may end with.
LanguageTags == KnownCodes \cup {".en", ".en-US"}

\* A file name without its trailing language tag, whatever the tag.
WithoutTag(stem) ==
    IF Len(stem) >= 2 /\ stem[Len(stem)] \in LanguageTags
    THEN SubSeq(stem, 1, Len(stem) - 1)
    ELSE stem

\* The tag the lookup is meant to give (names matched case-insensitively).
ExpectedTag(lang) ==
    CASE lang \in {"Vietnamese", "vietnamese"} -> ".vi"
      [] lang \in {"Spanish", "spanish"} -> ".es"
      [] OTHER -> ".trans"

\* C19: the translated file of a caption file is named after it, with the
\* trailing language tag removed, whatever tag it is, and the tag of the
\* target language appended ('trans' for a language the lookup does not
\* know).
C19_DestinationName ==
    ts_path = "translated" =>
        Range(ts_result) \subseteq
            {WithoutTag(f) \o <<ExpectedTag(ts_call.target_language)>> :
                f \in Range(translator_calls)}

\* The timing lines of a file, in file order.
TimingLinesIn(lines) == SelectSeq(lines, LAMBDA l : \E i \in DOMAIN l : l[i] = "-->")

\* C20: the written file is the header, a blank line and then, for every
\* input entry in input order, that entry's timing line unchanged, one text
\* line and a blank line; no timing is changed, dropped, added or reordered.
C20_FileLayout ==
    wpc = "written" =>
        LET lines == FileLines(vtt_content)
        IN /\ Len(lines) = 2 + 3 * Len(entries)
           /\ lines[1] = <<"WEBVTT">>
           /\ lines[2] = <<>>
           /\ \A i \in DOMAIN entries :
                 /\ lines[3 * i] = TimingLineOf(entries[i])
                 /\ lines[3 * i + 2] = <<>>

\* C20, the part about timings alone: the timing lines of the file are those
\* of the entries, in order.
C20_TimingsKept ==
    wpc = "written" =>
        TimingLinesIn(FileLines(vtt_content)) = [i \in DOMAIN entries |-> TimingLineOf(entries[i])]

\* The blocks that _clean_vtt_block kept, as their cleaned lines.
KeptBlocks ==
    LET kept == SelectSeq(block_results, LAMBDA r : r.result.keep)
    IN [i \in DOMAIN kept |-> kept[i].result.lines]

\* C21: in the cleaned file every timing line is immediately followed by
\* the text line of its cue (never by a blank line, by another timing line
\* or by the end of the file), and the kept blocks are separated by a blank
\* line.
C21_TimingThenText ==
    cpc = "cleaned" =>
        /\ \A i \in DOMAIN content :
              HasArrow(content[i]) =>
                  /\ i < Len(content)
                  /\ NonBlank(content[i + 1])
                  /\ ~HasArrow(content[i + 1])
        /\ content = JoinBlocks(KeptBlocks)

\* C21, the part the final pass does ensure: no timing line is followed by
\* a blank line.
C21_NoBlankAfterTiming ==
    cpc = "cleaned" =>
        \A i \in DOMAIN content :
            (HasArrow(content[i]) /\ i < Len(content)) => NonBlank(content[i + 1])

\* Artifact removal alone: the text lines that hold an artifact phrase are
\* dropped, every other line is left as it is.
ArtifactPass(lines, ra) ==
    IF ra THEN SelectSeq(lines, LAMBDA l : ~(IsTextLine(l) /\ HasArtifact(l))) ELSE lines

\* Tag removal alone: every text line is replaced by clean_html_tags of it,
\* every other line is left as it is.
TagPass(lines, rh) ==
    IF rh THEN [i \in DOMAIN lines |->
                   IF IsTextLine(lines[i]) THEN clean_html_tags(lines[i]) ELSE lines[i]]
    ELSE lines

\* C22: the two toggles are independent. What _clean_vtt_block returns is
\* artifact removal (if on) followed by tag removal (if on), each being the
\* same transformation whatever the other toggle is, blank lines left out:
\* with artifact removal off the lines holding artifact phrases are kept
\* with their tags stripped, and with tag removal off the artifact lines are
\* dropped and every other text line comes back exactly as given.
C22_TogglesIndependent ==
    bpc = "returned" =>
        /\ b_result.lines = SelectSeq(TagPass(ArtifactPass(b_lines, b_ra), b_rh), NonBlank)
        /\ b_result.keep = (b_result.lines # <<>>)
        /\ (~b_ra /\ b_rh) =>
              \A i \in DOMAIN b_lines :
                  (IsTextLine(b_lines[i]) /\ HasArtifact(b_lines[i])
                      /\ NonBlank(clean_html_tags(b_lines[i])))
                  => \E k \in DOMAIN b_result.lines :
                         b_result.lines[k] = clean_html_tags(b_lines[i])
        /\ (b_ra /\ ~b_rh) =>
              b_result.lines =
                  SelectSeq(b_lines, LAMBDA l : NonBlank(l) /\ ~(IsTextLine(l) /\ HasArtifact(l)))

\* C22 witness: a block with a tagged artifact line and a tagged plain line
\* was cleaned with one toggle on and the other off.
C22_Witness ==
    /\ bpc = "returned"
    /\ b_ra # b_rh
    /\ \E i \in DOMAIN b_lines : b_lines[i] = <<"sau", " ", "<", "c", ">", "day">>
    /\ \E i \in DOMAIN b_lines : b_lines[i] = <<"x", " ", " ", "<", "c", ">", "y">>

HasCompleteTag(s) == \E i \in DOMAIN s : \E j \in DOMAIN s : i < j /\ s[i] = "<" /\ s[j] = ">"

\* C24: the result of clean_html_tags holds no complete tag, every
\* whitespace character of it is one single blank between two other
\* characters, and cleaning the result once more changes nothing.
C24_TagsRemoved ==
    /\ tpc \in {"cleaned", "again"} =>
          /\ ~HasCompleteTag(t_result)
          /\ \A i \in DOMAIN t_result :
                IsSpace(t_result[i]) =>
                    /\ t_result[i] = " "
                    /\ 1 < i /\ i < Len(t_result)
                    /\ ~IsSpace(t_result[i + 1])
    /\ tpc = "again" => t_again = t_result

\* C24 witness: a text with a timestamp tag next to a bracket, a run of
\* whitespace and a word was cleaned twice.
C24_Witness ==
    /\ tpc = "again"
    /\ HasCompleteTag(t_text)
    /\ \E i \in 1..(Len(t_text) - 1) : IsSpace(t_text[i]) /\ IsSpace(t_text[i + 1])
    /\ t_result # <<>>

C30_SourceUntouched ==
    /\ \A f \in folder : \A lang \in Languages \cup {"English"} : TranslatedStem(f, lang) # f
    /\ ts_path = "translated" =>
          /\ Range(ts_result) \cap Range(translator_calls) = {}
          /\ Range(translator_calls) \subseteq folder

\* C30 witness: a run has translated X.en.vtt and written its translation.
C30_Witness ==
    /\ ts_path = "translated"
    /\ <<"X", ".en">> \in Range(translator_calls)
    /\ ts_result # <<>>

\* C29: once the video folder exists, download_youtube_video makes at most
\* 3 attempts, stops at the first that succeeds, retries after any exception
\* while attempts remain and returns without propagating it; attempt 1 asks
\* for subtitles with format 'best', attempts 2 and 3 ask for no subtitles,
\* attempt 3 lowers the format to 'best[height<=720]', and no later attempt
\* goes back to the options of an earlier one.
C29_ThreeAttempts ==
    /\ Len(dl_options) <= 3
    /\ \A k \in DOMAIN dl_options :
          /\ dl_options[k].writesubtitles = (k = 1)
          /\ dl_options[k].writeautomaticsub = (k = 1)
          /\ dl_options[k].format = IF k = 3 THEN "best[height<=720]" ELSE "best"
    /\ dl_pc = "downloading" => Len(dl_errors) = Len(dl_options) - 1
    /\ dl_pc = "loop" => Len(dl_errors) = Len(dl_options)
    /\ dl_result = "success" => Len(dl_errors) = Len(dl_options) - 1
    /\ dl_result = "all_failed" => Len(dl_errors) = 3 /\ Len(dl_options) = 3
    /\ dl_options # <<>> => dl_pc # "raised"
    /\ (dl_pc = "returned" /\ dl_options # <<>>) => dl_result \in {"success", "all_failed"}

\* C29 witness: the first two attempts raised, an error of another kind
\* than a rate limit among them, and the third succeeded.
C29_Witness ==
    /\ dl_result = "success"
    /\ Len(dl_options) = 3
    /\ dl_errors[1] = "other"

\* The download threads that are running.
RunningDownloads == {i \in DOMAIN downloads : downloads[i].pc # "done"}

\* C25: while a download thread is running the download button stays
\* disabled, so at most one download is in progress at any time, also when a
\* preview thread started before the click finishes during the download.
C25_OneDownloadAtATime ==
    /\ RunningDownloads # {} => download_disabled
    /\ Cardinality(RunningDownloads) <= 1

\* C27: the final status of the download handler is a 'completed' message
\* only if the download succeeded; when the video information could not be
\* read or every attempt failed it is an error message and the handler does
\* not show the play button.
C27_CompletedOnlyOnSuccess ==
    \A i \in DOMAIN downloads :
        (downloads[i].pc \in {"status", "done"} /\ downloads[i].outcome # "success") =>
            /\ downloads[i].status = "error"
            /\ ~downloads[i].play

\* C28: whenever no player view is on the view stack, the English caption
\* file is not left under its hidden name.
C28_HiddenFileRestored ==
    (\A k \in DOMAIN views : views[k].route # "/player") => ~en_hidden

====
